---------------------------- MODULE Spec2Model ----------------------------
(***************************************************************************)
(* A model of the round-resolution engine of ai4peace:                     *)
(*   core/gamemaster.py   GameMaster.process_round and its eight phases    *)
(*   core/simulation.py   the caller of process_round                      *)
(*                                                                         *)
(* Conventions of the model                                                *)
(*  - Money is counted in units of 1000 dollars, so that the success       *)
(*    probabilities of gamemaster.py (0.3 + budget / 1000000, ...) are     *)
(*    integers in per-mille.  A draw of random.random() is an integer      *)
(*    0..999 (per-mille); "random() < p" is "u < p * 1000".                *)
(*  - Python floats are modelled as exact integers; a product with a       *)
(*    fraction (0.8 * x) is Pct(x, 80) and is exact on the amounts the     *)
(*    model submits.  Progress is counted in percent (0..100).             *)
(*  - A date is a number of days since 1 January of BaseYear in a          *)
(*    calendar of DaysPerYear days.                                        *)
(*  - None and the other falsy values of Python ("" and 0) are the same    *)
(*    value where the code only tests truthiness; an optional object is a  *)
(*    sequence of length 0 (None) or 1.                                    *)
(*  - Every variable that belongs to one run of the program is a function  *)
(*    of the run: one run for the properties of a run, two runs with the   *)
(*    same seed and the same submitted actions for the properties that     *)
(*    compare runs.                                                        *)
(***************************************************************************)
EXTENDS Integers, Sequences, FiniteSets, TLC

VARIABLES
    game_state,   \* [run -> GameState]
    actions,      \* [run -> the list handed to process_round (round_number is written by the gamemaster)]
    rng,          \* [run -> number of draws consumed from GameMaster.random]
    stream,       \* the values of the seeded stream between the slowest and the fastest run
    now,          \* [run -> datetime.now(), the wall-clock day of the run]
    pc,           \* the phase of process_round that runs next ("idle": no call in progress)
    idx,          \* the index in actions of the next primary action of phase 3
    summaries,    \* [run -> the value returned by the last process_round]
    aborted,      \* [run -> an exception left process_round]
    calls,        \* the number of process_round calls made
    entry,        \* history: [run -> the game state the current call was made with]
    sim           \* [run -> the Simulation object and the position of Simulation.run]

vars == <<game_state, actions, rng, stream, now, pc, idx, summaries, aborted, calls, entry, sim>>

Runs == DOMAIN game_state

-----------------------------------------------------------------------------
(* Bounds of the model *)

MaxCalls == 1     \* calls of process_round when the caller submits the wide menu
MaxRounds == 2    \* calls of process_round when the caller submits a narrow menu
MaxActions == 2   \* the length of a submitted list drawn freely from a menu
MaxSeasons == 5   \* calls of process_round when the caller submits at most one action a round

-----------------------------------------------------------------------------
(* Program constants *)

BaseYear == 2024
DaysPerYear == 365
RoundStepDays == 91
FundraiseSuccessMille == 700
FundraisePct == 80
RefundPct == 50
InvestPct == 90
SellPct == 70
EspionageBaseMille == 300
EspionageCapMille == 800
PoachBaseMille == 200
PoachCapMille == 600
PoachPct == 10
PoachCap == 5
BackfireMille == 100
LeakMille == 50
EventMille == 100
RecentKept == 5
EventsShown == 5
ExtendDays == 365
BaseRatePct == 10
MaxRatePct == 30

Years == BaseYear .. (BaseYear + 3)

\* Values of random.random(), in per-mille.  25 is below every threshold of
\* the gamemaster; 450 lies between the thresholds; 900 is above them all.
AllDraws == {25, 450, 900}
\* The draws on which neither a leak nor a world event nor a backfire fires.
QuietDraws == {450, 900}

Min(a, b) == IF a < b THEN a ELSE b
Max(a, b) == IF a > b THEN a ELSE b
Pct(x, p) == (x * p) \div 100
Year(d) == BaseYear + (d \div DaysPerYear)

Last(s, n) == IF Len(s) <= n THEN s ELSE SubSeq(s, Len(s) - n + 1, Len(s))

-----------------------------------------------------------------------------
(* scenarios/basic_ai_race.py: the catalogue of world events *)

RANDOM_EVENTS == <<"AI accident", "interpretability breakthrough", "China deployment",
                   "export controls", "deceptive alignment">>

-----------------------------------------------------------------------------
(* The data model.  Texts are records [text, n]: the fixed words of the    *)
(* f-string and the number it formats.                                     *)

Txt(t, n) == [text |-> t, n |-> n]

AssetBalance(t, c, h) == [technical_capability |-> t, capital |-> c, human |-> h]

\* AssetBalance.add / AssetBalance.subtract: a new balance, field by field
Add(a, b) == AssetBalance(a.technical_capability + b.technical_capability,
                          a.capital + b.capital, a.human + b.human)
Subtract(a, b) == AssetBalance(a.technical_capability - b.technical_capability,
                               a.capital - b.capital, a.human - b.human)

\* The characters of the model, in the insertion order of GameState.characters.
CharOrder == <<"A", "B">>
\* A name that no game state registers.
Unknown == "Z"

CharacterState(name, balance, budget, shown) ==
    [name |-> name,
     private_info |-> [true_asset_balance |-> balance,
                       budget |-> budget,
                       projects |-> <<>>],
     public_view |-> [asset_balance |-> shown,
                      stated_objectives |-> "objectives",
                      stated_strategy |-> "strategy",
                      public_artifacts |-> <<"artifact">>],
     recent_actions |-> <<>>,
     inbox |-> <<>>,
     espionage_results |-> <<>>,     \* character._espionage_results
     private_updates |-> <<>>]       \* character._private_updates

GameState(start, chars) ==
    [current_date |-> start,
     round_number |-> 0,
     characters |-> chars,
     public_events |-> <<>>,
     game_history |-> <<>>]

\* GameState.get_character: the name is registered
Registered(g) == DOMAIN g.characters
\* game_state.characters.values(), in insertion order
CharSeq(g) == SelectSeq(CharOrder, LAMBDA n : n \in Registered(g))

\* private_info.budget.get(year, 0.0): an absent key reads 0
BudgetOf(c, year) == c.private_info.budget[year]

\* An Action with every optional field None.
Action(type, name) ==
    [action_type |-> type,
     character_name |-> name,
     round_number |-> 0,
     fundraising_amount |-> 0,
     research_project |-> <<>>,
     project_name_to_cancel |-> "",
     capital_investment |-> 0,
     capital_to_sell |-> 0,
     espionage |-> <<>>,
     poaching_target |-> "",
     poaching_budget |-> 0,
     lobbying_message |-> "",
     lobbying_budget |-> 0,
     marketing_message |-> "",
     marketing_budget |-> 0,
     message |-> <<>>]

\* ResearchProjectAction: target_completion_date is a text that parses to a
\* naive datetime ("naive", day), to a datetime with a UTC offset ("aware",
\* day), or does not parse ("invalid").
ResearchProjectAction(name, kind, day, annual, required) ==
    [name |-> name,
     target_completion_date |-> [kind |-> kind, day |-> day],
     annual_budget |-> annual,
     required_assets |-> required]

EspionageAction(target, budget, focus) ==
    [target_character |-> target, budget |-> budget, focus |-> focus]

MessageAction(to, content) == [to_character |-> to, content |-> content]

ResearchProject(name, target, annual, committed) ==
    [name |-> name,
     target_completion_date |-> target,
     committed_budget |-> annual,
     committed_assets |-> committed,
     status |-> "active",
     progress |-> 0,
     realistic_goals |-> ""]

-----------------------------------------------------------------------------
(* gamemaster.py: the handlers of phase 3.  A handler maps the game state  *)
(* g, the acting character n, the action a, the next value u of the random *)
(* stream and the wall-clock day t to                                      *)
(*   g: the game state it leaves, summary: the text it returns,            *)
(*   drew: the number of draws it consumed, raised: an exception left it.  *)

Outcome(g, summary, drew) == [g |-> g, summary |-> summary, drew |-> drew, raised |-> FALSE]

SetBudget(g, n, year, v) == [g EXCEPT !.characters[n].private_info.budget[year] = v]
SetBalance(g, n, b) == [g EXCEPT !.characters[n].private_info.true_asset_balance = b]
Balance(g, n) == g.characters[n].private_info.true_asset_balance

\* The draw is made before the amount is looked at.
FundraisingDrawsFirst(g, n, a, u, t) ==
    IF u < FundraiseSuccessMille /\ a.fundraising_amount # 0
    THEN Outcome(SetBudget(g, n, Year(t), BudgetOf(g.characters[n], Year(t))
                                              + Pct(a.fundraising_amount, FundraisePct)),
                 Txt("Successfully raised", Pct(a.fundraising_amount, FundraisePct)), 1)
    ELSE IF a.fundraising_amount # 0
    THEN Outcome(g, Txt("Fundraising attempt was unsuccessful", a.fundraising_amount), 1)
    ELSE Outcome(g, Txt("Fundraising action with no amount specified", 0), 1)

_process_fundraising(g, n, a, u, t) ==
    IF a.fundraising_amount # 0
    THEN IF u < FundraiseSuccessMille
         THEN LET year == Year(t)
                  current_budget == BudgetOf(g.characters[n], year)
                  raised == Pct(a.fundraising_amount, FundraisePct)
              IN  Outcome(SetBudget(g, n, year, current_budget + raised),
                          Txt("Successfully raised", raised), 1)
         ELSE Outcome(g, Txt("Fundraising attempt was unsuccessful", a.fundraising_amount), 1)
    ELSE Outcome(g, Txt("Fundraising action with no amount specified", 0), 0)

\* _assess_research_realism: the project with its timeline extended and the
\* advisory note attached when the heuristic finds the timeline unrealistic.
\* required_resources is counted in tenths.
_assess_research_realism(project, t) ==
    LET days_to_complete == project.target_completion_date - t
        required_resources == 10 * project.committed_assets.human
                              + 5 * project.committed_assets.technical_capability
                              + 3 * project.committed_assets.capital
    IN  IF required_resources * days_to_complete < days_to_complete * 100
        THEN [project EXCEPT !.target_completion_date = t + ExtendDays,
                             !.realistic_goals = "Timeline extended"]
        ELSE project

\* Only the technical capability is compared.
InsufficientTechnicalCapability(current, required) ==
    current.technical_capability < required.technical_capability

\* The character lacks one of the required assets.
InsufficientAssets(current, required) ==
    \/ current.technical_capability < required.technical_capability
    \/ current.capital < required.capital
    \/ current.human < required.human

_process_create_research(g, n, a, t) ==
    IF a.research_project = <<>>
    THEN Outcome(g, Txt("Research project creation with no project details", 0), 0)
    ELSE
    LET project_data == a.research_project[1]
        required == project_data.required_assets
        current == Balance(g, n)
        year == Year(g.current_date)
        current_budget == BudgetOf(g.characters[n], year)
        date == project_data.target_completion_date
        target_date == IF date.kind = "invalid" THEN g.current_date + ExtendDays ELSE date.day
        project == ResearchProject(project_data.name, target_date,
                                   project_data.annual_budget, required)
        deducted == SetBudget(SetBalance(g, n, Subtract(current, required)),
                              n, year, current_budget - project_data.annual_budget)
    IN  IF InsufficientAssets(current, required)
        THEN Outcome(g, Txt("Insufficient resources to start research project", 0), 0)
        ELSE IF current_budget < project_data.annual_budget
        THEN Outcome(g, Txt("Insufficient budget for research project", 0), 0)
        ELSE IF date.kind = "aware"
        \* target_completion_date - datetime.now() raises TypeError (an aware
        \* minus a naive datetime), after the deduction and before the append
        THEN [g |-> deducted, summary |-> Txt("", 0), drew |-> 0, raised |-> TRUE]
        ELSE Outcome([deducted EXCEPT !.characters[n].private_info.projects =
                          Append(@, _assess_research_realism(project, t))],
                     Txt("Created research project", 0), 0)

\* The index of the first active project of that name, 0 when there is none.
\* The first project of that name, whatever its status.
FirstNamed(projects, name) ==
    LET hits == {i \in 1..Len(projects) : projects[i].name = name}
    IN  IF hits = {} THEN 0 ELSE CHOOSE i \in hits : \A j \in hits : i <= j

FirstActive(projects, name) ==
    LET hits == {i \in 1..Len(projects) :
                    projects[i].name = name /\ projects[i].status = "active"}
    IN  IF hits = {} THEN 0 ELSE CHOOSE i \in hits : \A j \in hits : i <= j

\* Everything committed is given back.
RefundInFull(committed) == committed

\* Refund partial resources (50%)
Refund(committed) ==
    AssetBalance(Pct(committed.technical_capability, RefundPct),
                 Pct(committed.capital, RefundPct),
                 Pct(committed.human, RefundPct))

_process_cancel_research(g, n, a) ==
    IF a.project_name_to_cancel = ""
    THEN Outcome(g, Txt("Cancel action with no project name", 0), 0)
    ELSE
    LET projects == g.characters[n].private_info.projects
        i == FirstActive(projects, a.project_name_to_cancel)
    IN  IF i = 0
        THEN Outcome(g, Txt("Could not find active research project", 0), 0)
        ELSE LET refund == Refund(projects[i].committed_assets)
                 cancelled == [g EXCEPT !.characters[n].private_info.projects[i].status = "cancelled"]
             IN  Outcome(SetBalance(cancelled, n, Add(Balance(g, n), refund)),
                         Txt("Cancelled research project", 0), 0)

_process_capital_investment(g, n, a, t) ==
    IF a.capital_investment = 0
    THEN Outcome(g, Txt("Capital investment with no amount", 0), 0)
    ELSE
    LET year == Year(t)
        budget == BudgetOf(g.characters[n], year)
        spent == SetBudget(g, n, year, budget - a.capital_investment)
    IN  IF budget < a.capital_investment
        THEN Outcome(g, Txt("Insufficient budget for capital investment", a.capital_investment), 0)
        ELSE Outcome([spent EXCEPT !.characters[n].private_info.true_asset_balance.capital =
                          @ + Pct(a.capital_investment, InvestPct)],
                     Txt("Invested in capital improvements", a.capital_investment), 0)

_process_sell_capital(g, n, a, t) ==
    IF a.capital_to_sell = 0
    THEN Outcome(g, Txt("Sell capital with no amount", 0), 0)
    ELSE
    LET year == Year(t)
        sold == [g EXCEPT !.characters[n].private_info.true_asset_balance.capital =
                     @ - a.capital_to_sell]
        current_budget == BudgetOf(g.characters[n], year)
    IN  IF Balance(g, n).capital < a.capital_to_sell
        THEN Outcome(g, Txt("Insufficient capital to sell", a.capital_to_sell), 0)
        ELSE Outcome(SetBudget(sold, n, year, current_budget + Pct(a.capital_to_sell, SellPct)),
                     Txt("Sold in capital assets", a.capital_to_sell), 0)

\* A successful attempt is disclosed as soon as the action is resolved, with
\* the figures the target has then.
EspionageDisclosedAtOnce(g, n, a, u) ==
    IF a.espionage = <<>>
    THEN Outcome(g, Txt("Espionage action with no details", 0), 0)
    ELSE
    LET esp == a.espionage[1]
        year == Year(g.current_date)
        budget == BudgetOf(g.characters[n], year)
        success_prob == Min(EspionageBaseMille + esp.budget, EspionageCapMille)
        success == u < success_prob
        result == [target |-> esp.target_character, focus |-> esp.focus,
                   budget |-> esp.budget, success |-> FALSE, round |-> g.round_number]
        spent == SetBudget(g, n, year, budget - esp.budget)
        target == spent.characters[esp.target_character]
        found == [kind |-> "Espionage", name |-> esp.target_character, focus |-> esp.focus,
                  budget |-> BudgetOf(target, year),
                  technical_capability |-> target.private_info.true_asset_balance.technical_capability,
                  capital |-> target.private_info.true_asset_balance.capital,
                  human |-> target.private_info.true_asset_balance.human,
                  progress |-> 0]
    IN  IF esp.target_character \notin Registered(g)
        THEN Outcome(g, Txt("Target character not found", 0), 0)
        ELSE IF budget < esp.budget
        THEN Outcome(g, Txt("Insufficient budget for espionage", 0), 0)
        ELSE Outcome([spent EXCEPT !.characters[n].espionage_results = Append(@, result),
                                   !.characters[n].private_updates =
                                       IF success THEN Append(@, found) ELSE @],
                     Txt(IF success THEN "Conducted espionage (success)"
                                    ELSE "Conducted espionage (failed)", 0), 1)

_process_espionage(g, n, a, u) ==
    IF a.espionage = <<>>
    THEN Outcome(g, Txt("Espionage action with no details", 0), 0)
    ELSE
    LET esp == a.espionage[1]
        year == Year(g.current_date)
        budget == BudgetOf(g.characters[n], year)
        success_prob == Min(EspionageBaseMille + esp.budget, EspionageCapMille)
        success == u < success_prob
        result == [target |-> esp.target_character, focus |-> esp.focus,
                   budget |-> esp.budget, success |-> success, round |-> g.round_number]
        spent == SetBudget(g, n, year, budget - esp.budget)
    IN  IF esp.target_character \notin Registered(g)
        THEN Outcome(g, Txt("Target character not found", 0), 0)
        ELSE IF budget < esp.budget
        THEN Outcome(g, Txt("Insufficient budget for espionage", 0), 0)
        ELSE Outcome([spent EXCEPT !.characters[n].espionage_results = Append(@, result)],
                     Txt(IF success THEN "Conducted espionage (success)"
                                    ELSE "Conducted espionage (failed)", 0), 1)

\* The people arrive and nobody leaves.
GrantHuman(g, from, to, amount) ==
    [g EXCEPT !.characters[to].private_info.true_asset_balance.human = @ + amount]

\* target.human -= transfer_amount; character.human += transfer_amount
TransferHuman(g, from, to, amount) ==
    LET taken == [g EXCEPT !.characters[from].private_info.true_asset_balance.human = @ - amount]
    IN  [taken EXCEPT !.characters[to].private_info.true_asset_balance.human = @ + amount]

_process_poaching(g, n, a, u) ==
    IF a.poaching_target = "" \/ a.poaching_budget = 0
    THEN Outcome(g, Txt("Poaching action with no target or budget", 0), 0)
    ELSE
    LET target == a.poaching_target
        year == Year(g.current_date)
        budget == BudgetOf(g.characters[n], year)
        success_prob == Min(PoachBaseMille + 2 * a.poaching_budget, PoachCapMille)
        spent == SetBudget(g, n, year, budget - a.poaching_budget)
        transfer_amount == Min(Pct(Balance(spent, target).human, PoachPct), PoachCap)
        given == TransferHuman(spent, target, n, transfer_amount)
    IN  IF target \notin Registered(g)
        THEN Outcome(g, Txt("Target character not found", 0), 0)
        ELSE IF budget < a.poaching_budget
        THEN Outcome(g, Txt("Insufficient budget for poaching", 0), 0)
        ELSE IF u < success_prob
        THEN Outcome(given, Txt("Successfully poached talent", transfer_amount), 1)
        ELSE Outcome(spent, Txt("Poaching attempt failed", 0), 1)

_process_lobbying(g, n, a, u, t) ==
    IF a.lobbying_message = "" \/ a.lobbying_budget = 0
    THEN Outcome(g, Txt("Lobbying action with no message or budget", 0), 0)
    ELSE
    LET year == Year(t)
        budget == BudgetOf(g.characters[n], year)
    IN  IF budget < a.lobbying_budget
        THEN Outcome(g, Txt("Insufficient budget for lobbying", 0), 0)
        ELSE Outcome(SetBudget(g, n, year, budget - a.lobbying_budget),
                     Txt(IF u < BackfireMille THEN "Lobbying campaign backfired"
                                              ELSE "Launched lobbying campaign", 0), 1)

\* The campaign is paid for without looking at what is left.
MarketingOnCredit(g, n, a, t) ==
    IF a.marketing_message = "" \/ a.marketing_budget = 0
    THEN Outcome(g, Txt("Marketing action with no message or budget", 0), 0)
    ELSE Outcome(SetBudget(g, n, Year(t), BudgetOf(g.characters[n], Year(t)) - a.marketing_budget),
                 Txt("Launched marketing campaign", 0), 0)

_process_marketing(g, n, a, t) ==
    IF a.marketing_message = "" \/ a.marketing_budget = 0
    THEN Outcome(g, Txt("Marketing action with no message or budget", 0), 0)
    ELSE
    LET year == Year(t)
        budget == BudgetOf(g.characters[n], year)
    IN  IF budget < a.marketing_budget
        THEN Outcome(g, Txt("Insufficient budget for marketing", 0), 0)
        ELSE Outcome(SetBudget(g, n, year, budget - a.marketing_budget),
                     Txt("Launched marketing campaign", 0), 0)

\* The handler _process_action dispatches to (action_summary stays "" for MESSAGE).
Dispatch(g, n, a, u, t) ==
    CASE a.action_type = "FUNDRAISE" -> _process_fundraising(g, n, a, u, t)
      [] a.action_type = "CREATE_RESEARCH_PROJECT" -> _process_create_research(g, n, a, t)
      [] a.action_type = "CANCEL_RESEARCH_PROJECT" -> _process_cancel_research(g, n, a)
      [] a.action_type = "INVEST_CAPITAL" -> _process_capital_investment(g, n, a, t)
      [] a.action_type = "SELL_CAPITAL" -> _process_sell_capital(g, n, a, t)
      [] a.action_type = "ESPIONAGE" -> _process_espionage(g, n, a, u)
      [] a.action_type = "POACH_TALENT" -> _process_poaching(g, n, a, u)
      [] a.action_type = "LOBBY" -> _process_lobbying(g, n, a, u, t)
      [] a.action_type = "MARKETING" -> _process_marketing(g, n, a, t)
      [] OTHER -> Outcome(g, Txt("", 0), 0)

\* The entry is appended and none is dropped.
RecordKeepingAll(g, n, summary) ==
    [g EXCEPT !.characters[n].recent_actions =
        Append(@, [round |-> g.round_number, summary |-> summary])]

\* character.recent_actions.append(...); recent_actions = recent_actions[-5:]
Record(g, n, summary) ==
    [g EXCEPT !.characters[n].recent_actions =
        Last(Append(@, [round |-> g.round_number, summary |-> summary]), RecentKept)]

\* _process_action: the game state, the action as the gamemaster leaves it,
\* the draws consumed, and whether an exception left the handler.
_process_action(g, a, u, t) ==
    IF a.character_name \notin Registered(g)
    THEN [g |-> g, action |-> a, drew |-> 0, raised |-> FALSE]
    ELSE LET stamped == [a EXCEPT !.round_number = g.round_number]
             out == Dispatch(g, a.character_name, stamped, u, t)
         IN  IF out.raised
             THEN [g |-> out.g, action |-> stamped, drew |-> out.drew, raised |-> TRUE]
             ELSE [g |-> Record(out.g, a.character_name, out.summary),
                   action |-> stamped, drew |-> out.drew, raised |-> FALSE]

-----------------------------------------------------------------------------
(* The phases of process_round other than phase 3 *)

\* GameState.increment_round: round_number += 1 and the date moves one step
increment_round(g) ==
    [g EXCEPT !.round_number = @ + 1, !.current_date = @ + RoundStepDays]

\* The record with the recipient in the sender's place.
MessageFromRecipient(from, to, content, timestamp, round) ==
    [from_character |-> to, to_character |-> to, content |-> content,
     timestamp |-> timestamp, round_number |-> round]

Message(from, to, content, timestamp, round) ==
    [from_character |-> from, to_character |-> to, content |-> content,
     timestamp |-> timestamp, round_number |-> round]

\* Every message of the inbox up to the round.
get_messages_until_round(c, round_number) ==
    SelectSeq(c.inbox, LAMBDA msg : msg.round_number <= round_number)

\* CharacterState.get_messages_for_round: the messages of the inbox that
\* carry the round number
get_messages_for_round(c, round_number) ==
    SelectSeq(c.inbox, LAMBDA msg : msg.round_number = round_number)

\* _process_messages, from the k-th action on
RECURSIVE MessagesFrom(_, _, _)
MessagesFrom(g, acts, k) ==
    IF k > Len(acts) THEN g
    ELSE LET a == acts[k]
             to == a.message[1].to_character
             delivered == [g EXCEPT !.characters[to].inbox =
                              Append(@, Message(a.character_name, to, a.message[1].content,
                                                g.current_date, g.round_number))]
         IN  IF a.message # <<>> /\ to \in Registered(g)
             THEN MessagesFrom(delivered, acts, k + 1)
             ELSE MessagesFrom(g, acts, k + 1)

_process_messages(g, acts) == MessagesFrom(g, acts, 1)

\* Every project that has not been cancelled.
NotCancelled(project) == project.status # "cancelled"

\* if project.status == "active"
IsActive(project) == project.status = "active"

\* A project advances only when the budget pays for it.
AdvanceOnlyWhenFunded(project, budget) ==
    LET progress_rate == Min(BaseRatePct + project.committed_assets.human, MaxRatePct)
        progress == Min(project.progress + progress_rate, 100)
    IN  IF project.status = "active" /\ budget >= project.committed_budget
        THEN [project |-> [project EXCEPT !.progress = progress,
                                          !.status = IF progress >= 100 THEN "completed" ELSE @],
              budget |-> budget - project.committed_budget]
        ELSE [project |-> project, budget |-> budget]

\* The rate is what the committed people give, without the base rate.
AdvanceByStaffOnly(project, budget) ==
    LET progress_rate == Min(project.committed_assets.human, MaxRatePct)
        progress == Min(project.progress + progress_rate, 100)
    IN  IF project.status = "active"
        THEN [project |-> [project EXCEPT !.progress = progress,
                                          !.status = IF progress >= 100 THEN "completed" ELSE @],
              budget |-> IF budget >= project.committed_budget
                         THEN budget - project.committed_budget ELSE budget]
        ELSE [project |-> project, budget |-> budget]

\* One project of _update_research_projects: the project and the owner's
\* current-year budget after it.
AdvanceProject(project, budget) ==
    LET progress_rate == Min(BaseRatePct + project.committed_assets.human, MaxRatePct)
        progress == Min(project.progress + progress_rate, 100)
    IN  IF IsActive(project)
        THEN [project |-> [project EXCEPT !.progress = progress,
                                          !.status = IF progress >= 100 THEN "completed" ELSE @],
              budget |-> IF budget >= project.committed_budget
                         THEN budget - project.committed_budget ELSE budget]
        ELSE [project |-> project, budget |-> budget]

\* The projects of one character from the k-th on, in list order.
RECURSIVE AdvanceFrom(_, _, _)
AdvanceFrom(c, year, k) ==
    IF k > Len(c.private_info.projects) THEN c
    ELSE LET r == AdvanceProject(c.private_info.projects[k], BudgetOf(c, year))
         IN  AdvanceFrom([c EXCEPT !.private_info.projects[k] = r.project,
                                   !.private_info.budget[year] = r.budget], year, k + 1)

_update_research_projects(g) ==
    [g EXCEPT !.characters =
        [n \in Registered(g) |-> AdvanceFrom(g.characters[n], Year(g.current_date), 1)]]

\* A line of a character's private update.
Update(kind, name, focus, budget, balance, progress) ==
    [kind |-> kind, name |-> name, focus |-> focus, budget |-> budget,
     technical_capability |-> balance.technical_capability,
     capital |-> balance.capital, human |-> balance.human, progress |-> progress]

NoBalance == AssetBalance(0, 0, 0)

\* The disclosure of one espionage result.
Disclosure(g, result) ==
    LET target == g.characters[result.target]
    IN  Update("Espionage", result.target, result.focus,
               BudgetOf(target, Year(g.current_date)),
               target.private_info.true_asset_balance, 0)

RECURSIVE Disclosures(_, _, _)
Disclosures(g, results, k) ==
    IF k > Len(results) THEN <<>>
    ELSE (IF results[k].success /\ results[k].target \in Registered(g)
          THEN <<Disclosure(g, results[k])>> ELSE <<>>) \o Disclosures(g, results, k + 1)

\* The attempts are cleared and nothing is disclosed.
ClearAttempts(g) ==
    [g EXCEPT !.characters =
        [n \in Registered(g) |-> [g.characters[n] EXCEPT !.espionage_results = <<>>]]]

_simulate_espionage_results(g) ==
    [g EXCEPT !.characters =
        [n \in Registered(g) |->
            [g.characters[n] EXCEPT
                !.private_updates = @ \o Disclosures(g, g.characters[n].espionage_results, 1),
                !.espionage_results = <<>>]]]

\* random.choice(seq) with the stream value u
Choice(seq, u) == seq[((u * Len(seq)) \div 1000) + 1]

\* The leak also corrects the human figure the selected character shows.
LeakCorrectingView(g, u1, u2) ==
    IF u1 < LeakMille
    THEN IF CharSeq(g) = <<>>
         THEN [g |-> g, drew |-> 1, raised |-> TRUE]
         ELSE LET character == g.characters[Choice(CharSeq(g), u2)]
                  human == character.private_info.true_asset_balance.human
              IN  [g |-> [g EXCEPT !.public_events =
                                      Append(@, [kind |-> "Leaked intelligence",
                                                 name |-> character.name,
                                                 budget |-> BudgetOf(character, Year(g.current_date)),
                                                 human |-> human, round |-> 0]),
                                   !.characters[character.name].public_view.asset_balance.human = human],
                   drew |-> 2, raised |-> FALSE]
    ELSE [g |-> g, drew |-> 1, raised |-> FALSE]

PublicEvent(kind, name, budget, human, round) ==
    [kind |-> kind, name |-> name, budget |-> budget, human |-> human, round |-> round]

\* _simulate_information_leaks with the next two values of the stream
_simulate_information_leaks(g, u1, u2) ==
    IF u1 < LeakMille
    THEN IF CharSeq(g) = <<>>
         \* random.choice of an empty list raises IndexError
         THEN [g |-> g, drew |-> 1, raised |-> TRUE]
         ELSE LET character == g.characters[Choice(CharSeq(g), u2)]
                  leak_info == PublicEvent("Leaked intelligence", character.name,
                                           BudgetOf(character, Year(g.current_date)),
                                           character.private_info.true_asset_balance.human, 0)
              IN  [g |-> [g EXCEPT !.public_events = Append(@, leak_info)],
                   drew |-> 2, raised |-> FALSE]
    ELSE [g |-> g, drew |-> 1, raised |-> FALSE]

\* The event is put in front of the public events.
EventsInFront(g, u1, u2) ==
    IF u1 < EventMille
    THEN [g |-> [g EXCEPT !.public_events =
                    <<[kind |-> "Round", name |-> Choice(RANDOM_EVENTS, u2), budget |-> 0,
                       human |-> 0, round |-> g.round_number]>> \o @],
          drew |-> 2, raised |-> FALSE]
    ELSE [g |-> g, drew |-> 1, raised |-> FALSE]

\* _introduce_random_events with the next two values of the stream
_introduce_random_events(g, u1, u2) ==
    IF u1 < EventMille
    THEN [g |-> [g EXCEPT !.public_events =
                    Append(@, PublicEvent("Round", Choice(RANDOM_EVENTS, u2), 0, 0, g.round_number))],
          drew |-> 2, raised |-> FALSE]
    ELSE [g |-> g, drew |-> 1, raised |-> FALSE]

\* _describe_action: the fixed words, the name and the number of the description
Desc(text, who, n) == [text |-> text, who |-> who, n |-> n]

_describe_action(a) ==
    CASE a.action_type = "FUNDRAISE" -> Desc("Attempted fundraising of", "", a.fundraising_amount)
      [] a.action_type = "CREATE_RESEARCH_PROJECT" ->
            Desc("Created research project:",
                 IF a.research_project # <<>> THEN a.research_project[1].name ELSE "unknown", 0)
      [] a.action_type = "CANCEL_RESEARCH_PROJECT" ->
            Desc("Cancelled research project:", a.project_name_to_cancel, 0)
      [] a.action_type = "INVEST_CAPITAL" -> Desc("Invested in capital", "", a.capital_investment)
      [] a.action_type = "SELL_CAPITAL" -> Desc("Sold in capital", "", a.capital_to_sell)
      [] a.action_type = "ESPIONAGE" ->
            Desc("Conducted espionage on",
                 IF a.espionage # <<>> THEN a.espionage[1].target_character ELSE "unknown", 0)
      [] a.action_type = "POACH_TALENT" -> Desc("Attempted to poach talent from", a.poaching_target, 0)
      [] a.action_type = "LOBBY" -> Desc("Launched lobbying campaign", "", 0)
      [] a.action_type = "MARKETING" -> Desc("Launched marketing campaign", "", 0)
      [] a.action_type = "MESSAGE" ->
            Desc("Sent message to",
                 IF a.message # <<>> THEN a.message[1].to_character ELSE "unknown", 0)
      [] OTHER -> Desc("Unknown action", "", 0)

\* The names of by_character, in the order of their first action.
RECURSIVE FirstSeen(_, _, _)
FirstSeen(acts, k, seen) ==
    IF k > Len(acts) THEN seen
    ELSE FirstSeen(acts, k + 1,
                   IF \E j \in 1..Len(seen) : seen[j] = acts[k].character_name
                   THEN seen ELSE Append(seen, acts[k].character_name))

\* The descriptions of the actions of one name, in submission order.
RECURSIVE DescribedFor(_, _, _)
DescribedFor(acts, name, k) ==
    IF k > Len(acts) THEN <<>>
    ELSE (IF acts[k].character_name = name THEN <<_describe_action(acts[k])>> ELSE <<>>)
         \o DescribedFor(acts, name, k + 1)

_create_action_summary(g, acts) ==
    LET names == FirstSeen(acts, 1, <<>>)
    IN  [round |-> g.round_number,
         date |-> g.current_date,
         by_character |-> [j \in 1..Len(names) |->
                              [name |-> names[j], actions |-> DescribedFor(acts, names[j], 1)]],
         public_events |-> Last(g.public_events, EventsShown)]

\* The status lines of a character's projects, in list order.
RECURSIVE ProjectLines(_, _)
ProjectLines(projects, k) ==
    IF k > Len(projects) THEN <<>>
    ELSE (CASE projects[k].status = "completed" ->
                  <<Update("has been completed", projects[k].name, "", 0, NoBalance, 0)>>
            [] projects[k].status = "active" ->
                  <<Update("is % complete", projects[k].name, "", 0, NoBalance, projects[k].progress)>>
            [] OTHER -> <<>>)
         \o ProjectLines(projects, k + 1)

NoUpdates == <<Update("No significant private updates.", "", "", 0, NoBalance, 0)>>

\* The private summary of one character.
PrivateSummary(c) ==
    LET private_updates == c.private_updates \o ProjectLines(c.private_info.projects, 1)
    IN  IF private_updates # <<>> THEN private_updates ELSE NoUpdates

\* The summaries are returned and the private updates stay queued.
SummariesKeepingUpdates(g, acts) ==
    [g |-> [g EXCEPT !.game_history = Append(@, _create_action_summary(g, acts))],
     summaries |-> [n \in Registered(g) |-> PrivateSummary(g.characters[n])]]

\* _generate_summaries: the game state it leaves and the map it returns
_generate_summaries(g, acts) ==
    [g |-> [g EXCEPT !.characters = [n \in Registered(g) |->
                                        [g.characters[n] EXCEPT !.private_updates = <<>>]],
                     !.game_history = Append(@, _create_action_summary(g, acts))],
     summaries |-> [n \in Registered(g) |-> PrivateSummary(g.characters[n])]]

-----------------------------------------------------------------------------
(* GameMaster.random: random.Random(random_seed).  The runs share the seed, *)
(* so the k-th value of the stream is the same in every run; a value is     *)
(* chosen when the first run draws it and kept until the last run has.      *)

SetMin(S) == CHOOSE x \in S : \A y \in S : x <= y
SetMax(S) == CHOOSE x \in S : \A y \in S : x >= y

\* The k-th next value of run r's stream; fresh are the values not drawn yet.
ValueAt(r, k, fresh) ==
    LET p == rng[r] + k - SetMin({rng[q] : q \in Runs})
    IN  IF p <= Len(stream) THEN stream[p] ELSE fresh[p - Len(stream)]

\* Run r consumes drew[r] values.
Consume(drew, fresh) ==
    LET lo == SetMin({rng[q] : q \in Runs})
        moved == [r \in Runs |-> rng[r] + drew[r]]
        all == stream \o fresh
    IN  /\ rng' = moved
        /\ stream' = SubSeq(all, SetMin({moved[q] : q \in Runs}) - lo + 1,
                                 SetMax({moved[q] : q \in Runs}) - lo)

-----------------------------------------------------------------------------
(* process_round, phase by phase.  A run an exception has left takes no    *)
(* further part in the call.                                               *)

\* The phase after the primary action k of a list of n actions (k = 0: after
\* the messages).
AfterAction(k, n) == IF k < n THEN "actions" ELSE "research"

\* The steps 5 and 6 exchanged.
PhaseAfterLeaksFirst(phase) ==
    CASE phase = "research" -> "leaks"
      [] phase = "leaks" -> "espionage"
      [] phase = "espionage" -> "events"
      [] phase = "events" -> "summaries"
      [] phase = "summaries" -> "idle"

\* The order of the steps 4 to 8 of process_round.
PhaseAfter(phase) ==
    CASE phase = "research" -> "espionage"
      [] phase = "espionage" -> "leaks"
      [] phase = "leaks" -> "events"
      [] phase = "events" -> "summaries"
      [] phase = "summaries" -> "idle"

\* The phase that follows, unless the exception has left every run.
Continue(phase, ab) == IF \A r \in Runs : ab[r] THEN "idle" ELSE phase

ListsOver(menu, maxLen) == UNION {[1..k -> menu] : k \in 0..maxLen}

AdvanceTimeTwice(g) == increment_round(increment_round(g))

\* step 1: increment time
AdvanceTime(g) == increment_round(g)

\* process_round is entered with a list of actions and runs step 1
EnterProcessRound(submissions, maxCalls) ==
    /\ pc = "idle"
    /\ calls < maxCalls
    /\ \A r \in Runs : ~aborted[r]
    /\ \E acts \in submissions :
          actions' = [r \in Runs |-> acts]
    /\ game_state' = [r \in Runs |-> AdvanceTime(game_state[r])]
    /\ pc' = "messages"
    /\ idx' = 1
    /\ calls' = calls + 1
    /\ entry' = game_state
    /\ UNCHANGED <<rng, stream, now, summaries, aborted>>

\* process_round is called with a list of actions by a caller that is not
\* Simulation.run
CallProcessRound(submissions, maxCalls) ==
    /\ EnterProcessRound(submissions, maxCalls)
    /\ UNCHANGED sim

\* step 2: process bilateral messages
ProcessMessages ==
    /\ pc = "messages"
    /\ game_state' = [r \in Runs |-> _process_messages(game_state[r], actions[r])]
    /\ pc' = AfterAction(0, Len(actions[SetMin(Runs)]))
    /\ UNCHANGED <<actions, rng, stream, now, idx, summaries, aborted, calls, entry, sim>>

\* The list taken from its end.
SubmittedLastFirst(acts, i) == acts[Len(acts) - i + 1]

\* for action in actions: the action of iteration i
Submitted(acts, i) == acts[i]

\* step 3, one iteration of the loop: process the action at idx
ProcessAction(draws) ==
    /\ pc = "actions"
    /\ \E u \in draws :
          LET fresh == <<u>>
              out == [r \in Runs |->
                         IF aborted[r]
                         THEN [g |-> game_state[r], action |-> Submitted(actions[r], idx),
                               drew |-> 0, raised |-> FALSE]
                         ELSE _process_action(game_state[r], Submitted(actions[r], idx),
                                              ValueAt(r, 1, fresh), now[r])]
              ab == [r \in Runs |-> aborted[r] \/ out[r].raised]
          IN  /\ game_state' = [r \in Runs |-> out[r].g]
              /\ actions' = [r \in Runs |-> [actions[r] EXCEPT ![idx] = out[r].action]]
              /\ Consume([r \in Runs |-> out[r].drew], fresh)
              /\ aborted' = ab
              /\ pc' = Continue(AfterAction(idx, Len(actions[SetMin(Runs)])), ab)
    /\ idx' = idx + 1
    /\ UNCHANGED <<now, summaries, calls, entry, sim>>

\* step 4: update research projects
UpdateResearchProjects ==
    /\ pc = "research"
    /\ game_state' = [r \in Runs |-> IF aborted[r] THEN game_state[r]
                                     ELSE _update_research_projects(game_state[r])]
    /\ pc' = PhaseAfter("research")
    /\ UNCHANGED <<actions, rng, stream, now, idx, summaries, aborted, calls, entry, sim>>

\* step 5: simulate espionage results
SimulateEspionageResults ==
    /\ pc = "espionage"
    /\ game_state' = [r \in Runs |-> IF aborted[r] THEN game_state[r]
                                     ELSE _simulate_espionage_results(game_state[r])]
    /\ pc' = PhaseAfter("espionage")
    /\ UNCHANGED <<actions, rng, stream, now, idx, summaries, aborted, calls, entry, sim>>

\* A phase that draws: step 6 and step 7.
Drawing(phase(_, _, _), next, draws) ==
    \E u1 \in draws, u2 \in draws :
        LET fresh == <<u1, u2>>
            out == [r \in Runs |->
                       IF aborted[r]
                       THEN [g |-> game_state[r], drew |-> 0, raised |-> FALSE]
                       ELSE phase(game_state[r], ValueAt(r, 1, fresh), ValueAt(r, 2, fresh))]
            ab == [r \in Runs |-> aborted[r] \/ out[r].raised]
        IN  /\ game_state' = [r \in Runs |-> out[r].g]
            /\ Consume([r \in Runs |-> out[r].drew], fresh)
            /\ aborted' = ab
            /\ pc' = Continue(next, ab)

\* step 6: simulate information leaks
SimulateInformationLeaks(draws) ==
    /\ pc = "leaks"
    /\ Drawing(_simulate_information_leaks, PhaseAfter("leaks"), draws)
    /\ UNCHANGED <<actions, now, idx, summaries, calls, entry, sim>>

\* step 7: introduce random events
IntroduceRandomEvents(draws) ==
    /\ pc = "events"
    /\ Drawing(_introduce_random_events, PhaseAfter("events"), draws)
    /\ UNCHANGED <<actions, now, idx, summaries, calls, entry, sim>>

\* step 8: generate summaries; process_round returns them
GenerateSummaries ==
    /\ pc = "summaries"
    /\ LET out == [r \in Runs |-> _generate_summaries(game_state[r], actions[r])]
       IN  /\ game_state' = [r \in Runs |-> IF aborted[r] THEN game_state[r] ELSE out[r].g]
           /\ summaries' = [r \in Runs |-> IF aborted[r] THEN summaries[r] ELSE out[r].summaries]
    /\ pc' = PhaseAfter("summaries")
    /\ UNCHANGED <<actions, rng, stream, now, idx, aborted, calls, entry, sim>>

\* The phases 2 to 8 of a call in progress, over the given values of the stream.
Phases(draws) ==
    \/ ProcessMessages
    \/ ProcessAction(draws)
    \/ UpdateResearchProjects
    \/ SimulateEspionageResults
    \/ SimulateInformationLeaks(draws)
    \/ IntroduceRandomEvents(draws)
    \/ GenerateSummaries

-----------------------------------------------------------------------------
(* The actions a caller submits *)

Fundraise(n, amount) == [Action("FUNDRAISE", n) EXCEPT !.fundraising_amount = amount]
CreateResearch(n, project) == [Action("CREATE_RESEARCH_PROJECT", n) EXCEPT !.research_project = <<project>>]
CancelResearch(n, name) == [Action("CANCEL_RESEARCH_PROJECT", n) EXCEPT !.project_name_to_cancel = name]
InvestCapital(n, amount) == [Action("INVEST_CAPITAL", n) EXCEPT !.capital_investment = amount]
SellCapital(n, amount) == [Action("SELL_CAPITAL", n) EXCEPT !.capital_to_sell = amount]
Espionage(n, target, budget) ==
    [Action("ESPIONAGE", n) EXCEPT !.espionage = <<EspionageAction(target, budget, "budget")>>]
PoachTalent(n, target, budget) ==
    [Action("POACH_TALENT", n) EXCEPT !.poaching_target = target, !.poaching_budget = budget]
Lobby(n, budget) == [Action("LOBBY", n) EXCEPT !.lobbying_message = "policy", !.lobbying_budget = budget]
Marketing(n, budget) == [Action("MARKETING", n) EXCEPT !.marketing_message = "brand", !.marketing_budget = budget]
WithMessage(a, to) == [a EXCEPT !.message = <<MessageAction(to, "hello")>>]

\* Project specifications: one the character can afford, one that asks for
\* more capital than it holds, one whose annual budget exceeds its budget.
Affordable == ResearchProjectAction("p", "naive", 1000, 40, AssetBalance(2, 10, 20))
TooMuchCapital == ResearchProjectAction("p", "naive", 1000, 40, AssetBalance(2, 5000, 20))
TooMuchBudget == ResearchProjectAction("p", "naive", 1000, 5000, AssetBalance(2, 10, 20))
\* One that commits a negative number of people.
Regressing == ResearchProjectAction("n", "naive", 1000, 40, AssetBalance(2, 10, -20))
\* One whose target date carries a UTC offset, one whose date does not parse.
WithOffset == ResearchProjectAction("q", "aware", 1000, 40, AssetBalance(2, 10, 4))
Undated == ResearchProjectAction("q", "invalid", 0, 40, AssetBalance(2, 10, 4))

-----------------------------------------------------------------------------
(* Simulation: the object and the steps of Simulation.run.  A take_turn is *)
(* one step: the agent is shown the game state and two texts and answers   *)
(* with a list of actions, with no action, or with a text that cannot be   *)
(* parsed.                                                                 *)

\* Simulation.__init__ ; status and round_num are the position of run
Simulation(max_rounds) ==
    [max_rounds |-> max_rounds,
     status |-> "not started",
     round_num |-> 0,
     action_summary |-> <<>>,
     position |-> 1,            \* the next entry of self.agents.items()
     actions |-> <<>>,          \* the list of the round
     queries |-> <<>>,          \* history: what each take_turn of the round was passed
     history |-> <<>>,
     result |-> <<>>]

\* self.agents.items(): one agent for every character, in insertion order
AgentNames(g) == CharSeq(g)

\* _get_action_summary: the last three global summaries; the text of the
\* first round is the empty sequence
_get_action_summary(g) == Last(g.game_history, 3)

NoUpdatesYet == <<Update("No private updates available yet.", "", "", 0, NoBalance, 0)>>

\* _get_private_updates
_get_private_updates(g, character_name) ==
    IF character_name \in Registered(g) /\ g.characters[character_name].private_updates # <<>>
    THEN g.characters[character_name].private_updates
    ELSE NoUpdatesYet

\* An investment in place of the no-op.
SyntheticInvestment(character_name, round_num) ==
    [Action("INVEST_CAPITAL", character_name) EXCEPT !.round_number = round_num,
                                                     !.capital_investment = 100]

\* except Exception: the no-op action of Simulation.run
SyntheticAction(character_name, round_num) ==
    [Action("MARKETING", character_name) EXCEPT !.round_number = round_num]

\* _parse_response on an answer without actions (also the answer
\* _get_llm_response substitutes when the call of the model fails)
DefaultAction(character_name) == Action("MESSAGE", character_name)

\* _create_action_from_dict: the action of the dictionary, with the first
\* message of the response attached when the response lists messages
_create_action_from_dict(action, messages) ==
    IF messages # <<>> THEN [action EXCEPT !.message = <<messages[1]>>] ELSE action

\* _parse_response: the actions of a response, given as the actions its
\* "actions" describe and the messages its "messages" list
_parse_response(character_name, response) ==
    IF response.actions = <<>>
    THEN <<DefaultAction(character_name)>>
    ELSE [i \in 1..Len(response.actions) |->
             _create_action_from_dict(response.actions[i], response.messages)]

\* The loop is left after the first agent.
CollectedFirst(s, g) == s.position > 1

\* for character_name, agent in self.agents.items(): the loop is exhausted
Collected(s, g) == s.position > Len(AgentNames(g))

\* for round_num in range(1, max_rounds + 1): the next round begins
BeginRound ==
    /\ pc = "idle"
    /\ \A r \in Runs : /\ sim[r].status \in {"not started", "recorded"}
                       /\ sim[r].round_num < sim[r].max_rounds
    /\ sim' = [r \in Runs |->
                  [sim[r] EXCEPT !.status = "collecting",
                                 !.round_num = @ + 1,
                                 !.action_summary = _get_action_summary(game_state[r]),
                                 !.position = 1,
                                 !.actions = <<>>,
                                 !.queries = <<>>]]
    /\ UNCHANGED <<game_state, actions, rng, stream, now, pc, idx, summaries, aborted, calls, entry>>

\* One iteration of the loop over the agents: the agent of the position is
\* queried; answers(n) are the lists agent n may answer with.
TakeTurn(answers(_)) ==
    /\ pc = "idle"
    /\ \A r \in Runs : /\ sim[r].status = "collecting"
                       /\ ~Collected(sim[r], game_state[r])
    /\ \E outcome \in {"answered", "no actions", "raised"} :
       \E answer \in answers(AgentNames(game_state[SetMin(Runs)])[sim[SetMin(Runs)].position]) :
          sim' = [r \in Runs |->
                    LET s == sim[r]
                        character_name == AgentNames(game_state[r])[s.position]
                        private_updates == _get_private_updates(game_state[r], character_name)
                        per_agent_actions ==
                            CASE outcome = "answered" -> answer
                              [] outcome = "no actions" -> <<DefaultAction(character_name)>>
                              [] outcome = "raised" -> <<SyntheticAction(character_name, s.round_num)>>
                        query == [character_name |-> character_name,
                                  round_num |-> s.round_num,
                                  game_state |-> game_state[r],
                                  action_summary |-> s.action_summary,
                                  private_updates |-> private_updates,
                                  outcome |-> outcome,
                                  first |-> Len(s.actions) + 1,
                                  count |-> Len(per_agent_actions)]
                    IN  [s EXCEPT !.actions = @ \o per_agent_actions,
                                  !.queries = Append(@, query),
                                  !.position = @ + 1]]
    /\ UNCHANGED <<game_state, actions, rng, stream, now, pc, idx, summaries, aborted, calls, entry>>

\* self.gamemaster.process_round(game_state, actions)
RunProcessRound ==
    /\ \A r \in Runs : /\ sim[r].status = "collecting"
                       /\ Collected(sim[r], game_state[r])
    /\ EnterProcessRound({sim[SetMin(Runs)].actions}, sim[SetMin(Runs)].round_num)
    /\ sim' = [r \in Runs |-> [sim[r] EXCEPT !.status = "resolving"]]

\* process_round has returned: self.history.append(round_history)
RecordRound ==
    /\ pc = "idle"
    /\ \A r \in Runs : sim[r].status = "resolving" /\ ~aborted[r]
    /\ sim' = [r \in Runs |->
                  LET round_history == [round |-> sim[r].round_num,
                                        date |-> game_state[r].current_date,
                                        actions |-> actions[r],
                                        global_summary |-> Last(game_state[r].game_history, 1),
                                        private_summaries |-> summaries[r]]
                  IN  [sim[r] EXCEPT !.status = "recorded",
                                     !.history = Append(@, round_history)]]
    /\ UNCHANGED <<game_state, actions, rng, stream, now, pc, idx, summaries, aborted, calls, entry>>

\* An exception has left process_round: run has no handler around the call
\* and the exception leaves run
ExceptionLeavesRun ==
    /\ pc = "idle"
    /\ \A r \in Runs : sim[r].status = "resolving"
    /\ \E r \in Runs : aborted[r]
    /\ sim' = [r \in Runs |-> [sim[r] EXCEPT !.status = "failed"]]
    /\ UNCHANGED <<game_state, actions, rng, stream, now, pc, idx, summaries, aborted, calls, entry>>

\* The loop over the rounds is exhausted: run returns
Complete ==
    /\ pc = "idle"
    /\ \A r \in Runs : /\ sim[r].status \in {"not started", "recorded"}
                       /\ sim[r].round_num >= sim[r].max_rounds
    /\ sim' = [r \in Runs |->
                  [sim[r] EXCEPT !.status = "complete",
                                 !.result = <<[rounds_completed |-> sim[r].max_rounds]>>]]
    /\ UNCHANGED <<game_state, actions, rng, stream, now, pc, idx, summaries, aborted, calls, entry>>

\* Simulation.run, with the phases of the calls it makes
Run(answers(_), draws) ==
    \/ BeginRound
    \/ TakeTurn(answers)
    \/ RunProcessRound
    \/ Phases(draws)
    \/ RecordRound
    \/ ExceptionLeavesRun
    \/ Complete

-----------------------------------------------------------------------------
(* The initial states: the game state a scenario creates, a gamemaster     *)
(* whose stream is at its start, no call of process_round in progress.     *)

InitialBudget(amount) ==
    [y \in Years |-> IF y \in {BaseYear, BaseYear + 1} THEN amount ELSE 0]

TwoCharacters ==
    [n \in {"A", "B"} |->
        IF n = "A"
        THEN CharacterState("A", AssetBalance(10, 100, 20), InitialBudget(300), AssetBalance(12, 100, 30))
        ELSE CharacterState("B", AssetBalance(8, 60, 60), InitialBudget(200), AssetBalance(8, 50, 60))]

NoCharacters == [n \in {} |-> CharacterState(n, NoBalance, InitialBudget(0), NoBalance)]

\* One run: the start date, the wall-clock day and the registered characters
\* are chosen from the given sets.
InitOne(starts, clocks, rosters) ==
    /\ \E start \in starts, chars \in rosters :
          game_state = [r \in {1} |-> GameState(start, chars)]
    /\ \E t \in clocks : now = [r \in {1} |-> t]
    /\ actions = [r \in {1} |-> <<>>]
    /\ rng = [r \in {1} |-> 0]
    /\ stream = <<>>
    /\ pc = "idle"
    /\ idx = 1
    /\ summaries = [r \in {1} |-> <<>>]
    /\ aborted = [r \in {1} |-> FALSE]
    /\ calls = 0
    /\ entry = game_state
    /\ sim = [r \in DOMAIN game_state |-> Simulation(MaxRounds)]

-----------------------------------------------------------------------------
(* Spec: one run; the caller submits the empty list, any one action of the *)
(* wide menu, a list over the pair menu, or one of the clock lists.        *)

Singles(menu) == {<<a>> : a \in menu}

WideMenu ==
    {Fundraise("A", 100), Fundraise("A", 0), Fundraise(Unknown, 100),
     CreateResearch("A", TooMuchCapital), CreateResearch("A", TooMuchBudget),
     CreateResearch("A", Undated), CreateResearch("A", WithOffset),
     Action("CREATE_RESEARCH_PROJECT", "A"),
     CancelResearch("A", ""),
     InvestCapital("A", 0), InvestCapital("A", 5000), InvestCapital("A", -200),
     SellCapital("A", 60), SellCapital("A", 0), SellCapital("A", 5000),
     Espionage("A", Unknown, 200), Espionage("A", "B", 5000), Action("ESPIONAGE", "A"),
     PoachTalent("B", "A", 100), PoachTalent("B", Unknown, 100),
     PoachTalent("B", "A", 0), PoachTalent("B", "A", 5000),
     Lobby("B", 50), Lobby("B", 0), Lobby("B", 5000),
     Marketing("B", 50), Marketing("B", 0), Marketing("B", 5000),
     WithMessage(Action("MESSAGE", "B"), Unknown),
     WithMessage(Action("MESSAGE", "B"), "A")}

PairMenu ==
    {InvestCapital("A", 200),
     CreateResearch("A", Affordable),
     CancelResearch("A", "p"),
     WithMessage(Espionage("A", "B", 200), "B")}

\* A fundraising followed by an investment above the scenario's budget.
ClockLists == {<<Fundraise("A", 500), InvestCapital("A", 350)>>}

Submissions == Singles(WideMenu) \cup ListsOver(PairMenu, MaxActions) \cup ClockLists

Init == InitOne({0}, {100, 800}, {TwoCharacters})

Next == CallProcessRound(Submissions, MaxCalls) \/ Phases(QuietDraws)

Spec == Init /\ [][Next]_vars

-----------------------------------------------------------------------------
(* SpecPhases: one run; the caller submits lists over an espionage with a  *)
(* message attached and a research project; leaks and world events fire.   *)

\* The draws on which everything fires (25) or nothing does (900).
LoudDraws == {25, 900}

PhaseMenu ==
    {WithMessage(Espionage("A", "B", 200), "B"),
     CreateResearch("A", Affordable)}

InitPhases == InitOne({0}, {100}, {TwoCharacters})

NextPhases == CallProcessRound(ListsOver(PhaseMenu, MaxActions), MaxCalls) \/ Phases(LoudDraws)

SpecPhases == InitPhases /\ [][NextPhases]_vars

-----------------------------------------------------------------------------
(* SpecPair: two gamemasters created with the same seed, on two equal      *)
(* fresh game states, given the same lists; each runs under its own        *)
(* wall-clock date.                                                        *)

PairRunMenu ==
    {Fundraise("A", 100),
     CreateResearch("A", Affordable)}

InitPair ==
    /\ game_state = [r \in {1, 2} |-> GameState(0, TwoCharacters)]
    /\ now \in [{1, 2} -> {100, 800}]
    /\ actions = [r \in {1, 2} |-> <<>>]
    /\ rng = [r \in {1, 2} |-> 0]
    /\ stream = <<>>
    /\ pc = "idle"
    /\ idx = 1
    /\ summaries = [r \in {1, 2} |-> <<>>]
    /\ aborted = [r \in {1, 2} |-> FALSE]
    /\ calls = 0
    /\ entry = game_state
    /\ sim = [r \in DOMAIN game_state |-> Simulation(MaxRounds)]

NextPair == CallProcessRound(ListsOver(PairRunMenu, MaxActions), MaxCalls) \/ Phases(QuietDraws)

SpecPair == InitPair /\ [][NextPair]_vars

-----------------------------------------------------------------------------
(* SpecRoster: one run on a game state with two characters or with none;   *)
(* leaks and world events fire.                                            *)

RosterMenu ==
    {Fundraise("A", 100),
     CreateResearch("A", WithOffset)}

InitRoster == InitOne({0}, {100}, {TwoCharacters, NoCharacters})

NextRoster == CallProcessRound(ListsOver(RosterMenu, MaxActions), MaxCalls) \/ Phases(LoudDraws)

SpecRoster == InitRoster /\ [][NextRoster]_vars

-----------------------------------------------------------------------------
(* SpecResearch: one run over several rounds; the caller submits lists     *)
(* that create and cancel a research project.                              *)

ResearchMenu ==
    {CreateResearch("A", Affordable),
     CancelResearch("A", "p")}

InitResearch == InitOne({0}, {100}, {TwoCharacters})

NextResearch == CallProcessRound(ListsOver(ResearchMenu, MaxActions), MaxRounds) \/ Phases(QuietDraws)

SpecResearch == InitResearch /\ [][NextResearch]_vars

-----------------------------------------------------------------------------
(* SpecProgress: one run over enough rounds for a project to complete; the *)
(* caller submits at most one action a round.                              *)

ProgressMenu ==
    {CreateResearch("B", Affordable),
     CreateResearch("B", Regressing),
     CancelResearch("B", "p")}

InitProgress == InitOne({0}, {100}, {TwoCharacters})

NextProgress == CallProcessRound(ListsOver(ProgressMenu, 1), MaxSeasons) \/ Phases(QuietDraws)

SpecProgress == InitProgress /\ [][NextProgress]_vars

-----------------------------------------------------------------------------
(* SpecEspionage: one run; the caller submits lists of espionage actions   *)
(* on another character and on the acting character itself.                *)

EspionageMenu ==
    {Espionage("A", "B", 200),
     Espionage("B", "B", 100)}

InitEspionage == InitOne({0}, {100}, {TwoCharacters})

NextEspionage == CallProcessRound(ListsOver(EspionageMenu, MaxActions), MaxCalls) \/ Phases(LoudDraws)

SpecEspionage == InitEspionage /\ [][NextEspionage]_vars

-----------------------------------------------------------------------------
(* SpecPoach: one run; the caller submits at most one poaching action a    *)
(* round, on another character, on the acting character itself or on       *)
(* nobody known.                                                           *)

PoachMenu ==
    {PoachTalent("B", "A", 100),
     PoachTalent("A", "B", 100),
     PoachTalent("A", "A", 100),
     PoachTalent("B", Unknown, 100)}

InitPoach == InitOne({0}, {100}, {TwoCharacters})

NextPoach == CallProcessRound(ListsOver(PoachMenu, 1), MaxRounds) \/ Phases(LoudDraws)

SpecPoach == InitPoach /\ [][NextPoach]_vars

-----------------------------------------------------------------------------
(* SpecSecret: two gamemasters with the same seed and the same wall-clock  *)
(* date, given the same lists, on two game states that differ only in the  *)
(* private figures of character A.                                         *)

\* A with other private figures: more people, or less budget.
OtherFigures ==
    {[TwoCharacters EXCEPT !["A"].private_info.true_asset_balance.human = 40],
     [TwoCharacters EXCEPT !["A"].private_info.budget[BaseYear] = 100]}

SecretMenu ==
    {PoachTalent("B", "A", 100),
     Espionage("B", "A", 100)}

InitSecret ==
    /\ \E chars \in OtherFigures :
          game_state = [r \in {1, 2} |-> GameState(0, IF r = 1 THEN TwoCharacters ELSE chars)]
    /\ now = [r \in {1, 2} |-> 100]
    /\ actions = [r \in {1, 2} |-> <<>>]
    /\ rng = [r \in {1, 2} |-> 0]
    /\ stream = <<>>
    /\ pc = "idle"
    /\ idx = 1
    /\ summaries = [r \in {1, 2} |-> <<>>]
    /\ aborted = [r \in {1, 2} |-> FALSE]
    /\ calls = 0
    /\ entry = game_state
    /\ sim = [r \in DOMAIN game_state |-> Simulation(MaxRounds)]

NextSecret == CallProcessRound(ListsOver(SecretMenu, MaxActions), MaxCalls) \/ Phases(LoudDraws)

SpecSecret == InitSecret /\ [][NextSecret]_vars

-----------------------------------------------------------------------------
(* SpecRecent: one run over enough rounds for a character to resolve more  *)
(* actions than recent_actions keeps.                                      *)

RecentLists ==
    {<<>>,
     <<Fundraise("A", 0)>>,
     <<Marketing("A", 50)>>,
     <<Fundraise("A", 0), Marketing("A", 50)>>,
     <<Fundraise(Unknown, 100)>>}

InitRecent == InitOne({0}, {100}, {TwoCharacters})

NextRecent == CallProcessRound(RecentLists, MaxSeasons) \/ Phases(QuietDraws)

SpecRecent == InitRecent /\ [][NextRecent]_vars

\* Actions that carry messages between the two characters, to oneself, to a
\* name that is not registered and from a name that is not registered, next
\* to an action that carries none.
MessageMenu ==
    {WithMessage(Action("MESSAGE", "A"), "B"),
     WithMessage(Action("MESSAGE", "B"), "B"),
     WithMessage(Fundraise("B", 0), "A"),
     WithMessage(Action("MESSAGE", "A"), Unknown),
     WithMessage(Action("MESSAGE", Unknown), "B"),
     Fundraise("A", 0)}

InitMessages == InitOne({0}, {100}, {TwoCharacters})

\* The empty list, every action alone, and lists of two.
MessageLists ==
    {<<>>} \cup Singles(MessageMenu) \cup
    {<<WithMessage(Action("MESSAGE", "A"), Unknown), WithMessage(Action("MESSAGE", Unknown), "B")>>,
     <<WithMessage(Action("MESSAGE", "A"), "B"), WithMessage(Action("MESSAGE", "B"), "B")>>,
     <<WithMessage(Action("MESSAGE", "B"), "B"), WithMessage(Action("MESSAGE", "A"), "B")>>,
     <<WithMessage(Fundraise("B", 0), "A"), WithMessage(Action("MESSAGE", "A"), "B")>>}

NextMessages == CallProcessRound(MessageLists, MaxRounds) \/ Phases(QuietDraws)

SpecMessages == InitMessages /\ [][NextMessages]_vars

\* The draws on which an espionage of 100 succeeds (200) or fails (900) and
\* neither a leak nor a world event fires.
SpyDraws == {200, 900}

\* Rounds that change what a character holds while leaks fire: an
\* investment, a poaching, a fundraising.
ViewLists ==
    {<<>>,
     <<InvestCapital("A", 200)>>,
     <<PoachTalent("B", "A", 100)>>,
     <<Fundraise("B", 100), InvestCapital("A", 200)>>}

InitView == InitOne({0}, {100}, {TwoCharacters})

NextView == CallProcessRound(ViewLists, MaxRounds) \/ Phases(LoudDraws)

SpecView == InitView /\ [][NextView]_vars

\* Rounds of espionage that succeeds or fails: none, one, two by one
\* character, one by each, and one on a name that is not registered.
BufferLists ==
    {<<>>,
     <<Espionage("A", "B", 100)>>,
     <<Espionage("A", "B", 100), Espionage("A", "B", 100)>>,
     <<Espionage("B", "A", 100), Espionage("A", "B", 100)>>,
     <<Espionage("A", Unknown, 100)>>}

InitBuffers == InitOne({0}, {100}, {TwoCharacters})

NextBuffers == CallProcessRound(BufferLists, MaxRounds) \/ Phases(SpyDraws)

SpecBuffers == InitBuffers /\ [][NextBuffers]_vars

\* Calls with an espionage, a poaching and a lobbying that the
\* simulated year's budget covers, under a wall clock in the simulated year
\* or two years later, with draws on which they succeed or backfire (25)
\* and draws on which they do not (900).
OutcomeMenu ==
    {Espionage("A", "B", 100),
     PoachTalent("B", "A", 100),
     Lobby("B", 50)}

InitOutcome == InitOne({0}, {100, 800}, {TwoCharacters})

OutcomeLists ==
    Singles(OutcomeMenu) \cup {<<Lobby("B", 50), PoachTalent("B", "A", 100)>>}

NextOutcome == CallProcessRound(OutcomeLists, MaxCalls) \/ Phases(LoudDraws)

SpecOutcome == InitOutcome /\ [][NextOutcome]_vars

\* Simulation.run over MaxRounds rounds with one agent for A and one for B.
\* A answers with an espionage on B, or with an investment and a message;
\* B with a fundraising or with a project whose date carries a UTC offset.
AgentAnswers(character_name) ==
    IF character_name = "A"
    THEN {<<Espionage("A", "B", 100)>>,
          <<InvestCapital("A", 100), WithMessage(Action("MESSAGE", "A"), "B")>>}
    ELSE {<<Fundraise("B", 100)>>,
          <<CreateResearch("B", WithOffset)>>}

InitSimulation == InitOne({0}, {100}, {TwoCharacters})

NextSimulation == Run(AgentAnswers, SpyDraws)

SpecSimulation == InitSimulation /\ [][NextSimulation]_vars

-----------------------------------------------------------------------------
(* C1 *)

\* C1: every call of process_round increases round_number by exactly 1 and
\* moves current_date by exactly the fixed step, whatever list is submitted;
\* no other step of the call changes either, so that round_number counts the
\* calls made.
C1_RoundAdvancesByOne ==
    \A r \in Runs :
        /\ game_state[r].round_number = calls
        /\ calls > 0 =>
              /\ game_state[r].round_number = entry[r].round_number + 1
              /\ game_state[r].current_date = entry[r].current_date + RoundStepDays

\* A call with an action that fails validation has returned.
C1_Witness ==
    /\ pc = "idle"
    /\ calls >= 1
    /\ actions[1] = <<[InvestCapital("A", 5000) EXCEPT !.round_number = calls]>>
    /\ game_state[1].round_number = entry[1].round_number + 1
    /\ game_state[1].current_date = entry[1].current_date + RoundStepDays

-----------------------------------------------------------------------------
(* C2 *)

\* The messages of the submitted list addressed to n.
Sent(acts, n) ==
    Cardinality({k \in 1..Len(acts) :
                    acts[k].message # <<>> /\ acts[k].message[1].to_character = n})

\* The messages of the current round in n's inbox.
Received(g, n) ==
    Cardinality({i \in 1..Len(g.characters[n].inbox) :
                    g.characters[n].inbox[i].round_number = g.round_number})

\* The progress project i of n had when the call was made (0: created since).
ProgressAtEntry(r, n, i) ==
    IF i <= Len(entry[r].characters[n].private_info.projects)
    THEN entry[r].characters[n].private_info.projects[i].progress
    ELSE 0

\* The kinds of the public events appended since the call was made.
NewEventKinds(r) ==
    [i \in 1..(Len(game_state[r].public_events) - Len(entry[r].public_events)) |->
        game_state[r].public_events[Len(entry[r].public_events) + i].kind]

\* C2: inside a call the phases run in the order time, messages, primary
\* actions, research, espionage outcomes, leak, world event, summary, each
\* complete before the next begins.  What a phase does is visible in the
\* state: before a phase has run its effect is absent, and once the next
\* phase is due its effect is there for every action and every character.
C2_PhaseOrder ==
    \A r \in Runs : (pc # "idle" /\ ~aborted[r]) =>
        LET g == game_state[r]
            acts == actions[r]
        IN  \* time has advanced before anything else
            /\ g.round_number = entry[r].round_number + 1
            \* messages: none before the phase, all of them after it
            /\ \A n \in Registered(g) :
                  Received(g, n) = IF pc = "messages" THEN 0 ELSE Sent(acts, n)
            \* primary actions: none during the messages, the first idx - 1 in
            \* the loop, all of them from the research phase on
            /\ \A k \in 1..Len(acts) :
                  (acts[k].round_number = g.round_number)
                     <=> (pc \notin {"messages", "actions"} \/ (pc = "actions" /\ k < idx))
            \* research: no progress before the phase, progress of every active
            \* project after it
            /\ \A n \in Registered(g) :
                  \A i \in 1..Len(g.characters[n].private_info.projects) :
                      LET project == g.characters[n].private_info.projects[i]
                      IN  IF pc \in {"messages", "actions", "research"}
                          THEN project.progress = ProgressAtEntry(r, n, i)
                          ELSE project.status = "active" =>
                                  project.progress > ProgressAtEntry(r, n, i)
            \* espionage outcomes: no disclosure before the phase, no pending
            \* attempt after it
            /\ \A n \in Registered(g) :
                  IF pc \in {"messages", "actions", "research", "espionage"}
                  THEN g.characters[n].private_updates = <<>>
                  ELSE g.characters[n].espionage_results = <<>>
            \* leak, then world event
            /\ NewEventKinds(r) \in
                  CASE pc = "summaries" -> {<<>>, <<"Leaked intelligence">>, <<"Round">>,
                                            <<"Leaked intelligence", "Round">>}
                    [] pc = "events" -> {<<>>, <<"Leaked intelligence">>}
                    [] OTHER -> {<<>>}
            \* the summary comes last
            /\ g.game_history = entry[r].game_history

\* The loop of phase 3 is about to resolve the first of two actions, and the
\* messages attached to both are in the inbox of their recipient.
C2_Witness ==
    /\ pc = "actions"
    /\ idx = 1
    /\ Len(actions[1]) = 2
    /\ Sent(actions[1], "B") = 2
    /\ Received(game_state[1], "B") = 2
    /\ \A k \in 1..2 : actions[1][k].round_number # game_state[1].round_number

-----------------------------------------------------------------------------
(* C3 *)

\* C3: two gamemasters with the same seed, on equal fresh game states and
\* given the same lists, have identical game states (the global summaries of
\* game_history included) and identical private-update maps after every
\* round, whatever the wall-clock date of each run.
C3_Determinism ==
    \A r1 \in Runs, r2 \in Runs :
        pc = "idle" =>
            /\ game_state[r1] = game_state[r2]
            /\ summaries[r1] = summaries[r2]

\* The same, for two runs that happen on the same wall-clock date.
C3_SameClock ==
    \A r1 \in Runs, r2 \in Runs :
        (pc = "idle" /\ now[r1] = now[r2]) =>
            /\ game_state[r1] = game_state[r2]
            /\ summaries[r1] = summaries[r2]

-----------------------------------------------------------------------------
(* C4 *)

\* The list as it was submitted: no action stamped yet.
Unstamped(acts) == [k \in 1..Len(acts) |-> [acts[k] EXCEPT !.round_number = 0]]

\* The game state after the first k actions of the list have been resolved
\* one after the other, each on the state the one before it left, with the
\* draws us.
RECURSIVE ResolvedInOrder(_, _, _, _, _)
ResolvedInOrder(g, acts, k, us, t) ==
    IF k = 0 THEN g
    ELSE _process_action(ResolvedInOrder(g, acts, k - 1, us, t), acts[k], us[k], t).g

\* The texts of the entries of n's recent_actions.
RecentTexts(g, n) ==
    [i \in 1..Len(g.characters[n].recent_actions) |->
        g.characters[n].recent_actions[i].summary.text]

-----------------------------------------------------------------------------
(* C5 *)

\* C5: process_round never aborts: for any submitted list and any set of
\* registered characters no exception leaves it, and when it has returned it
\* has appended one global summary to game_history and returned a map with
\* one summary for every registered character.
C5_NeverAborts ==
    \A r \in Runs :
        /\ ~aborted[r]
        /\ (pc = "idle" /\ calls > 0) =>
              /\ Len(game_state[r].game_history) = calls
              /\ DOMAIN summaries[r] = Registered(game_state[r])

-----------------------------------------------------------------------------
(* C6 *)

\* The budget entry of the simulated year.
CurrentYearBudget(g, n) == BudgetOf(g.characters[n], Year(g.current_date))

\* The action fails validation: a required field is missing, the target
\* character is unknown, no active project has the name, or the budget or
\* the capital is below the requested amount.
FailsValidation(g, n, a) ==
    CASE a.action_type = "CANCEL_RESEARCH_PROJECT" ->
            \/ a.project_name_to_cancel = ""
            \/ FirstActive(g.characters[n].private_info.projects, a.project_name_to_cancel) = 0
      [] a.action_type = "INVEST_CAPITAL" ->
            \/ a.capital_investment = 0
            \/ CurrentYearBudget(g, n) < a.capital_investment
      [] a.action_type = "SELL_CAPITAL" ->
            \/ a.capital_to_sell = 0
            \/ Balance(g, n).capital < a.capital_to_sell
      [] a.action_type = "ESPIONAGE" ->
            \/ a.espionage = <<>>
            \/ a.espionage[1].target_character \notin Registered(g)
            \/ CurrentYearBudget(g, n) < a.espionage[1].budget
      [] a.action_type = "POACH_TALENT" ->
            \/ a.poaching_target = ""
            \/ a.poaching_budget = 0
            \/ a.poaching_target \notin Registered(g)
            \/ CurrentYearBudget(g, n) < a.poaching_budget
      [] a.action_type = "LOBBY" ->
            \/ a.lobbying_message = ""
            \/ a.lobbying_budget = 0
            \/ CurrentYearBudget(g, n) < a.lobbying_budget
      [] a.action_type = "MARKETING" ->
            \/ a.marketing_message = ""
            \/ a.marketing_budget = 0
            \/ CurrentYearBudget(g, n) < a.marketing_budget
      [] OTHER -> FALSE

\* The budgets, true balances and projects of every character.
PrivateInfo(g) == [n \in Registered(g) |-> g.characters[n].private_info]

\* The action the loop of phase 3 is about to resolve in run r.
Resolving(r) == Submitted(actions[r], idx)

\* C6: resolving an action that fails validation changes no character's
\* budget, true asset balance or projects; its only effect is one entry in
\* the acting character's recent_actions.
C6_FailureIsNoOp ==
    [][\A r \in Runs :
          (/\ pc = "actions"
           /\ ~aborted[r]
           /\ Resolving(r).character_name \in Registered(game_state[r])
           /\ FailsValidation(game_state[r], Resolving(r).character_name, Resolving(r)))
          => LET n == Resolving(r).character_name
                 before == game_state[r].characters[n].recent_actions
                 after == game_state'[r].characters[n].recent_actions
             IN  /\ after # <<>>
                 /\ after = Last(Append(before, after[Len(after)]), RecentKept)
                 /\ after[Len(after)].round = game_state[r].round_number
                 /\ PrivateInfo(game_state'[r]) = PrivateInfo(game_state[r])]_vars

-----------------------------------------------------------------------------
(* C7 *)

\* C7: a FUNDRAISE with an amount either (success) raises the acting
\* character's budget entry for the simulated year by 80% of the amount and
\* changes no other budget entry, balance or project, or (failure) changes
\* none of them.
C7_FundraiseCreditsCurrentYear ==
    [][\A r \in Runs :
          (/\ pc = "actions"
           /\ ~aborted[r]
           /\ Resolving(r).action_type = "FUNDRAISE"
           /\ Resolving(r).fundraising_amount # 0
           /\ Resolving(r).character_name \in Registered(game_state[r]))
          => LET g == game_state[r]
                 n == Resolving(r).character_name
                 raised == Pct(Resolving(r).fundraising_amount, FundraisePct)
                 credited == SetBudget(g, n, Year(g.current_date), CurrentYearBudget(g, n) + raised)
                 said == Last(RecentTexts(game_state'[r], n), 1)
             IN  \/ /\ said = <<"Successfully raised">>
                    /\ PrivateInfo(game_state'[r]) = PrivateInfo(credited)
                 \/ /\ said = <<"Fundraising attempt was unsuccessful">>
                    /\ PrivateInfo(game_state'[r]) = PrivateInfo(g)]_vars

-----------------------------------------------------------------------------
(* C8 *)

\* C8: resolving a FUNDRAISE with no amount consumes no value of the
\* gamemaster's random stream and changes no budget entry (nor anything
\* else than the acting character's recent_actions), so every later draw of
\* the round sees the stream where it would have been without the action.
C8_NoAmountNoDraw ==
    [][\A r \in Runs :
          (/\ pc = "actions"
           /\ ~aborted[r]
           /\ Resolving(r).action_type = "FUNDRAISE"
           /\ Resolving(r).fundraising_amount = 0
           /\ Resolving(r).character_name \in Registered(game_state[r]))
          => /\ rng'[r] = rng[r]
             /\ game_state'[r] = Record(game_state[r], Resolving(r).character_name,
                                        Txt("Fundraising action with no amount specified", 0))]_vars

\* A FUNDRAISE with no amount has been resolved; the stream is at its start.
C8_Witness ==
    /\ pc = "research"
    /\ Unstamped(actions[1]) = <<Fundraise("A", 0)>>
    /\ rng[1] = 0
    /\ RecentTexts(game_state[1], "A") = <<"Fundraising action with no amount specified">>
    /\ PrivateInfo(game_state[1]) = PrivateInfo(entry[1])

-----------------------------------------------------------------------------
(* C9 *)

\* C9: a CREATE_RESEARCH_PROJECT that requires more of some asset than the
\* character's true balance holds, or an annual budget above the budget of
\* the simulated year, changes no balance, budget entry or project list; on
\* the asset shortfall the summary says "Insufficient resources".
C9_UnaffordableProjectIsNoOp ==
    [][\A r \in Runs :
          (/\ pc = "actions"
           /\ ~aborted[r]
           /\ Resolving(r).action_type = "CREATE_RESEARCH_PROJECT"
           /\ Resolving(r).research_project # <<>>
           /\ Resolving(r).character_name \in Registered(game_state[r]))
          => LET g == game_state[r]
                 n == Resolving(r).character_name
                 project_data == Resolving(r).research_project[1]
                 short == \E f \in {"technical_capability", "capital", "human"} :
                              Balance(g, n)[f] < project_data.required_assets[f]
             IN  /\ (short \/ CurrentYearBudget(g, n) < project_data.annual_budget)
                       => PrivateInfo(game_state'[r]) = PrivateInfo(g)
                 /\ short => Last(RecentTexts(game_state'[r], n), 1)
                                = <<"Insufficient resources to start research project">>]_vars

\* A project that asks for more capital than the character holds has been
\* refused.
C9_Witness ==
    /\ pc = "research"
    /\ Unstamped(actions[1]) = <<CreateResearch("A", TooMuchCapital)>>
    /\ RecentTexts(game_state[1], "A") = <<"Insufficient resources to start research project">>
    /\ PrivateInfo(game_state[1]) = PrivateInfo(entry[1])
    /\ game_state[1].characters["A"].private_info.projects = <<>>

-----------------------------------------------------------------------------
(* C10 *)

\* Character n has created a project and then cancelled it, and has done
\* nothing else.
CreatedThenCancelled(g, n) ==
    RecentTexts(g, n) = <<"Created research project", "Cancelled research project">>

\* What n held before the creation: the game state the scenario created.
Before(g, n) == TwoCharacters[n].private_info

\* The true balance of n is lower than before the creation by half of what
\* the project committed, category by category.
HalfRefunded(g, n) ==
    LET committed == g.characters[n].private_info.projects[1].committed_assets
    IN  \A f \in {"technical_capability", "capital", "human"} :
            2 * (Before(g, n).true_asset_balance[f] - Balance(g, n)[f]) = committed[f]

\* C10 as stated: after creating a project and then cancelling it, with no
\* other action of the character in between, each asset category is lower
\* than before the creation by 50% of the amount committed and the budget is
\* lower by the committed annual budget.
C10_CreateThenCancel ==
    \A r \in Runs : \A n \in Registered(game_state[r]) :
        CreatedThenCancelled(game_state[r], n) =>
            LET g == game_state[r]
                project == g.characters[n].private_info.projects[1]
            IN  /\ HalfRefunded(g, n)
                /\ CurrentYearBudget(g, n)
                      = Before(g, n).budget[Year(g.current_date)] - project.committed_budget

\* C10, amended: the assets are as stated; the budget is lower by the
\* committed annual budget once for the creation and once more for every
\* research phase the project was active in, that is for every round from
\* the one of the creation up to the one before the cancellation.
C10_CreateThenCancelAcrossRounds ==
    \A r \in Runs : \A n \in Registered(game_state[r]) :
        CreatedThenCancelled(game_state[r], n) =>
            LET g == game_state[r]
                project == g.characters[n].private_info.projects[1]
                created == g.characters[n].recent_actions[1].round
                cancelled == g.characters[n].recent_actions[2].round
            IN  /\ HalfRefunded(g, n)
                /\ project.status = "cancelled"
                /\ CurrentYearBudget(g, n)
                      = Before(g, n).budget[Year(g.current_date)]
                        - project.committed_budget * (1 + cancelled - created)

\* A project created in round 1 has been cancelled in round 2: the budget
\* has paid for it twice.
C10_Witness ==
    /\ CreatedThenCancelled(game_state[1], "A")
    /\ game_state[1].characters["A"].recent_actions[1].round = 1
    /\ game_state[1].characters["A"].recent_actions[2].round = 2
    /\ CurrentYearBudget(game_state[1], "A") = 300 - 2 * 40
    /\ Balance(game_state[1], "A") = AssetBalance(9, 95, 10)

-----------------------------------------------------------------------------
(* C11 *)

\* The projects of character n in run r, now and after the step.
Projects(r, n) == game_state[r].characters[n].private_info.projects

\* C11: while a project is active its progress never decreases, progress
\* never exceeds 1.0, and the status changes to completed exactly once, in
\* the step in which progress first reaches 1.0.
C11_ProgressMonotone ==
    [][\A r \in Runs : \A n \in Registered(game_state[r]) :
          \A i \in 1..Len(Projects(r, n)) :
              LET project == Projects(r, n)[i]
                  after == game_state'[r].characters[n].private_info.projects[i]
              IN  /\ project.status = "active" => after.progress >= project.progress
                  /\ after.progress <= 100
                  /\ (project.status # "completed" /\ after.status = "completed")
                        <=> (project.status = "active" /\ project.progress < 100
                                /\ after.progress >= 100)
                  /\ project.status = "completed" => after.status = "completed"]_vars

-----------------------------------------------------------------------------
(* C12 *)

\* The committed annual budgets of the active projects from the k-th on.
RECURSIVE ActiveCost(_, _)
ActiveCost(projects, k) ==
    IF k > Len(projects) THEN 0
    ELSE (IF projects[k].status = "active" THEN projects[k].committed_budget ELSE 0)
         + ActiveCost(projects, k + 1)

\* C12: once a project is completed or cancelled no step changes its status,
\* progress, committed assets or committed budget; a cancellation that finds
\* no active project refunds nothing, and the research phase debits at most
\* the committed budgets of the active projects and touches no balance.
C12_TerminalIsFinal ==
    [][\A r \in Runs : \A n \in Registered(game_state[r]) :
          LET g == game_state[r]
              info == g.characters[n].private_info
              after == game_state'[r].characters[n].private_info
          IN  /\ \A i \in 1..Len(info.projects) :
                    info.projects[i].status \in {"completed", "cancelled"}
                       => after.projects[i] = info.projects[i]
              /\ (/\ pc = "actions"
                  /\ Resolving(r).character_name = n
                  /\ Resolving(r).action_type = "CANCEL_RESEARCH_PROJECT"
                  /\ FirstActive(info.projects, Resolving(r).project_name_to_cancel) = 0)
                 => after = info
              /\ pc = "research"
                 => /\ after.true_asset_balance = info.true_asset_balance
                    /\ \A y \in Years :
                          after.budget[y] <= info.budget[y]
                          /\ info.budget[y] - after.budget[y]
                                <= (IF y = Year(g.current_date)
                                    THEN ActiveCost(info.projects, 1) ELSE 0)]_vars

\* The research phase of the round after the one in which B's project was
\* completed has run: the project and the budget are as they were.
C12_Witness ==
    /\ pc = "espionage"
    /\ Len(entry[1].characters["B"].private_info.projects) = 1
    /\ entry[1].characters["B"].private_info.projects[1].status = "completed"
    /\ game_state[1].characters["B"].private_info = entry[1].characters["B"].private_info

-----------------------------------------------------------------------------
(* C13 *)

\* Run r is about to resolve an ESPIONAGE of a registered character on a
\* known target with a budget the character can pay.
ResolvingEspionage(r) ==
    /\ pc = "actions"
    /\ ~aborted[r]
    /\ Resolving(r).action_type = "ESPIONAGE"
    /\ Resolving(r).espionage # <<>>
    /\ Resolving(r).character_name \in Registered(game_state[r])
    /\ Resolving(r).espionage[1].target_character \in Registered(game_state[r])
    /\ CurrentYearBudget(game_state[r], Resolving(r).character_name)
          >= Resolving(r).espionage[1].budget

\* The espionage disclosures among the lines of a private summary.
DisclosedIn(summary) == SelectSeq(summary, LAMBDA line : line.kind = "Espionage")

\* The number of espionages of n that succeeded in the current round.
Succeeded(g, n) ==
    Cardinality({i \in 1..Len(g.characters[n].recent_actions) :
                    /\ g.characters[n].recent_actions[i].round = g.round_number
                    /\ g.characters[n].recent_actions[i].summary.text
                          = "Conducted espionage (success)"})

\* The summaries returned to the spies: one disclosure for every espionage
\* that succeeded in the round and none for one that failed; a disclosure
\* shows the simulated-year budget and the three true asset figures of a
\* target the character spied on.
DisclosuresReturned(r) ==
    (pc = "summaries" /\ ~aborted[r]) =>
        \A n \in Registered(game_state[r]) :
            LET g == game_state[r]
                lines == DisclosedIn(summaries'[r][n])
            IN  /\ Len(lines) = Succeeded(g, n)
                /\ \A j \in 1..Len(lines) :
                      /\ lines[j].name \in Registered(g)
                      /\ lines[j] = Update("Espionage", lines[j].name, lines[j].focus,
                                           CurrentYearBudget(g, lines[j].name),
                                           Balance(g, lines[j].name), 0)
                      /\ \E k \in 1..Len(actions[r]) :
                            /\ actions[r][k].action_type = "ESPIONAGE"
                            /\ actions[r][k].character_name = n
                            /\ actions[r][k].espionage[1].target_character = lines[j].name

\* C13 as stated: a successful espionage on a known target puts a disclosure
\* of the target's figures in the spy's private summary of the round, a
\* failed one puts none, and resolving the espionage changes nothing in the
\* target's state.
C13_Espionage ==
    [][\A r \in Runs :
          /\ ResolvingEspionage(r)
                => LET target == Resolving(r).espionage[1].target_character
                   IN  game_state'[r].characters[target] = game_state[r].characters[target]
          /\ DisclosuresReturned(r)]_vars

\* C13, amended: the same for a target other than the spy; a character that
\* spies on itself pays for the espionage like any other.
C13_EspionageOnAnother ==
    [][\A r \in Runs :
          /\ (ResolvingEspionage(r)
              /\ Resolving(r).espionage[1].target_character # Resolving(r).character_name)
                => LET n == Resolving(r).character_name
                       target == Resolving(r).espionage[1].target_character
                       results == game_state'[r].characters[n].espionage_results
                   IN  /\ game_state'[r].characters[target] = game_state[r].characters[target]
                       /\ Len(results) = Len(game_state[r].characters[n].espionage_results) + 1
                       /\ results[Len(results)].target = target
                       /\ results[Len(results)].success
                             <=> Last(RecentTexts(game_state'[r], n), 1)
                                    = <<"Conducted espionage (success)">>
          /\ (ResolvingEspionage(r)
              /\ Resolving(r).espionage[1].target_character = Resolving(r).character_name)
                => LET n == Resolving(r).character_name
                   IN  CurrentYearBudget(game_state'[r], n)
                          = CurrentYearBudget(game_state[r], n) - Resolving(r).espionage[1].budget
          /\ DisclosuresReturned(r)]_vars

\* A's espionage on B succeeded and the call has returned B's figures to A.
C13_Witness ==
    /\ pc = "idle"
    /\ calls = 1
    /\ Unstamped(actions[1]) = <<Espionage("A", "B", 200)>>
    /\ summaries[1]["A"] = <<Update("Espionage", "B", "budget", 200, AssetBalance(8, 60, 60), 0)>>
    /\ game_state[1].characters["B"].private_info = entry[1].characters["B"].private_info

-----------------------------------------------------------------------------
(* C14 *)

\* The true human balance of n.
Human(g, n) == Balance(g, n).human

\* C14: resolving a POACH_TALENT leaves the sum of the acting character's and
\* the target's true human balance as it was, on success and on failure,
\* also when the character names itself; nobody else's human balance
\* changes, and with an unknown target none changes.
C14_PoachingConservesHuman ==
    [][\A r \in Runs :
          (/\ pc = "actions"
           /\ ~aborted[r]
           /\ Resolving(r).action_type = "POACH_TALENT"
           /\ Resolving(r).character_name \in Registered(game_state[r]))
          => LET g == game_state[r]
                 n == Resolving(r).character_name
                 target == Resolving(r).poaching_target
             IN  /\ target \in Registered(g)
                    => Human(game_state'[r], n) + Human(game_state'[r], target)
                          = Human(g, n) + Human(g, target)
                 /\ \A other \in Registered(g) \ {n, target} :
                       Human(game_state'[r], other) = Human(g, other)
                 /\ target \notin Registered(g)
                    => Human(game_state'[r], n) = Human(g, n)]_vars

\* B has poached from A: two people, a tenth of A's twenty, have moved to B.
C14_Witness ==
    /\ pc = "research"
    /\ Unstamped(actions[1]) = <<PoachTalent("B", "A", 100)>>
    /\ RecentTexts(game_state[1], "B") = <<"Successfully poached talent">>
    /\ Human(game_state[1], "A") = Human(entry[1], "A") - 2
    /\ Human(game_state[1], "B") = Human(entry[1], "B") + 2

-----------------------------------------------------------------------------
(* C15 *)

\* What character y can observe in run r: the public events, the global
\* summaries, the private summary returned to it, and its own state.
Observed(r, y) ==
    [public_events |-> game_state[r].public_events,
     game_history |-> game_state[r].game_history,
     summary |-> IF y \in DOMAIN summaries[r] THEN summaries[r][y] ELSE <<>>,
     own |-> game_state[r].characters[y]]

\* In run r no information leak has selected x and no espionage of y on x
\* has succeeded.
NoDisclosure(r, x, y) ==
    /\ \A i \in 1..Len(game_state[r].public_events) :
          ~(game_state[r].public_events[i].kind = "Leaked intelligence"
            /\ game_state[r].public_events[i].name = x)
    /\ \A i \in 1..Len(game_state[r].characters[y].recent_actions) :
          game_state[r].characters[y].recent_actions[i].summary.text
             # "Conducted espionage (success)"

\* C15: two runs that differ only in the private figures of a character x,
\* with the same actions and the same draws, in which no leak selected x and
\* no espionage on x succeeded, show the same to every other character.
C15_InformationAsymmetry ==
    \A r1 \in Runs, r2 \in Runs :
        \A y \in Registered(game_state[r1]) \ {"A"} :
            (NoDisclosure(r1, "A", y) /\ NoDisclosure(r2, "A", y))
                => Observed(r1, y) = Observed(r2, y)

-----------------------------------------------------------------------------
(* C16 *)

\* C16: in every reachable state the true technical capability, capital and
\* human of every character are greater than or equal to 0.
C16_NonNegativeBalances ==
    \A r \in Runs : \A n \in Registered(game_state[r]) :
        /\ Balance(game_state[r], n).technical_capability >= 0
        /\ Balance(game_state[r], n).capital >= 0
        /\ Balance(game_state[r], n).human >= 0

-----------------------------------------------------------------------------
(* C17 *)

\* C17: in every reachable state no character owns two active projects of
\* the same name.
C17_ActiveNamesUnique ==
    \A r \in Runs : \A n \in Registered(game_state[r]) :
        \A i \in 1..Len(Projects(r, n)) : \A j \in 1..Len(Projects(r, n)) :
            (/\ i # j
             /\ Projects(r, n)[i].status = "active"
             /\ Projects(r, n)[j].status = "active")
            => Projects(r, n)[i].name # Projects(r, n)[j].name

-----------------------------------------------------------------------------
(* C18 *)

\* The recent_actions of n in a game state.
Recent(g, n) == g.characters[n].recent_actions

\* C18: a primary action resolved for a registered character appends exactly
\* one entry, stamped with the round, to that character's recent_actions and
\* to nobody else's; nothing else writes to recent_actions; the list keeps
\* the last 5 entries in resolution order, the oldest being dropped first.
\* (An action whose handler raises is not resolved: see C5.)
C18_RecentActions ==
    [][\A r \in Runs : \A n \in Registered(game_state[r]) :
          LET g == game_state[r]
              before == Recent(g, n)
              after == Recent(game_state'[r], n)
          IN  /\ Len(after) <= RecentKept
              /\ IF /\ pc = "actions"
                    /\ ~aborted[r]
                    /\ ~aborted'[r]
                    /\ Resolving(r).character_name = n
                 THEN /\ after # <<>>
                      /\ after[Len(after)].round = g.round_number
                      /\ after = Last(Append(before, after[Len(after)]), RecentKept)
                 ELSE after = before]_vars

\* A has resolved more than five actions: its first two have been dropped
\* and the five most recent are kept in the order of their resolution.
C18_Witness ==
    /\ calls = 4
    /\ pc = "research"
    /\ Len(Recent(game_state[1], "A")) = 5
    /\ [i \in 1..5 |-> Recent(game_state[1], "A")[i].round] = <<2, 2, 3, 3, 4>>
    /\ Len(actions[1]) = 1

-----------------------------------------------------------------------------
(* C19 *)

Inbox(g, n) == g.characters[n].inbox

\* The actions of the list that carry a message for n, in the list's order.
CarryingFor(acts, n) ==
    SelectSeq(acts, LAMBDA a : a.message # <<>> /\ a.message[1].to_character = n)

\* C19: the message phase appends to the inbox of every registered character
\* exactly one Message for each submitted action that carries a message for
\* it, in the order of the list, with the action's character_name as sender
\* and with the round number and the date that phase 1 has already advanced;
\* a message for a name that is not registered changes no inbox and raises
\* nothing; no other phase touches an inbox.
C19_MessagePhase ==
    [][\A r \in Runs : \A n \in Registered(game_state[r]) :
          LET g == game_state[r]
              carrying == CarryingFor(actions[r], n)
              delivered ==
                  [i \in 1..Len(carrying) |->
                      [from_character |-> carrying[i].character_name,
                       to_character |-> n,
                       content |-> carrying[i].message[1].content,
                       timestamp |-> entry[r].current_date + RoundStepDays,
                       round_number |-> entry[r].round_number + 1]]
          IN  IF pc = "messages"
              THEN /\ Inbox(game_state'[r], n) = Inbox(g, n) \o delivered
                   /\ ~aborted'[r]
              ELSE Inbox(game_state'[r], n) = Inbox(g, n)]_vars

\* In the second round a list with a message for a name that is not
\* registered and one from a name that is not registered has been through the
\* phase: B holds the message of the first round and the second one only.
C19_Witness ==
    /\ calls = 2
    /\ pc = "actions"
    /\ Len(Inbox(game_state[1], "B")) = 2
    /\ [i \in 1..2 |-> Inbox(game_state[1], "B")[i].from_character] = <<"A", Unknown>>
    /\ [i \in 1..2 |-> Inbox(game_state[1], "B")[i].round_number] = <<1, 2>>
    /\ Inbox(game_state[1], "A") = <<>>
    /\ Len(actions[1]) = 2
    /\ actions[1][1].message # <<>>
    /\ actions[1][1].message[1].to_character = Unknown

-----------------------------------------------------------------------------
(* C20 *)

\* C20: when process_round has returned, the round_number of every action of
\* the submitted list equals game_state.round_number of that round, whatever
\* the submitter had put there.
C20_RoundNumberOverwritten ==
    \A r \in Runs : (pc = "idle" /\ calls > 0 /\ ~aborted[r]) =>
        \A k \in 1..Len(actions[r]) :
            actions[r][k].round_number = game_state[r].round_number

-----------------------------------------------------------------------------
(* C21 *)

\* The attempts of the buffer that phase 5 turns into a private update.
Disclosing(g, n) ==
    SelectSeq(g.characters[n].espionage_results,
              LAMBDA result : result.success /\ result.target \in Registered(g))

\* C21: when process_round has returned, the espionage-attempt buffer and
\* the private-update buffer of every character are empty.  An attempt is
\* in the buffer only between phase 3 and phase 5 of the round that queued
\* it; phase 5 queues one private update for every successful attempt and
\* empties the buffer; a private update is in its buffer only between phase
\* 5 and phase 8, and phase 8 returns the queued updates, once each, at the
\* head of the character's summary and empties the buffer.
C21_BuffersDrained ==
    [][\A r \in Runs : ~aborted'[r] =>
          \A n \in Registered(game_state'[r]) :
             LET g == game_state[r]
                 before == g.characters[n]
                 after == game_state'[r].characters[n]
             IN  /\ pc' = "idle" => after.espionage_results = <<>> /\ after.private_updates = <<>>
                 /\ after.espionage_results # <<>> =>
                        /\ pc' \in {"actions", "research", "espionage"}
                        /\ \A k \in 1..Len(after.espionage_results) :
                              after.espionage_results[k].round = game_state'[r].round_number
                 /\ after.private_updates # <<>> => pc' \in {"leaks", "events", "summaries"}
                 /\ pc = "espionage" =>
                        /\ after.espionage_results = <<>>
                        /\ Len(after.private_updates) = Len(Disclosing(g, n))
                        /\ \A k \in 1..Len(after.private_updates) :
                              /\ after.private_updates[k].kind = "Espionage"
                              /\ after.private_updates[k].name = Disclosing(g, n)[k].target
                 /\ pc = "summaries" =>
                        /\ DisclosedIn(summaries'[r][n]) = before.private_updates
                        /\ SubSeq(summaries'[r][n], 1, Len(before.private_updates))
                              = before.private_updates]_vars

\* The second round has returned: A's two espionages of the round succeeded
\* and its summary holds the two disclosures, after a round in which A had
\* paid for an espionage as well.
C21_Witness ==
    /\ pc = "idle"
    /\ calls = 2
    /\ Len(actions[1]) = 2
    /\ Len(DisclosedIn(summaries[1]["A"])) = 2
    /\ CurrentYearBudget(game_state[1], "A") = 0
    /\ \A n \in Registered(game_state[1]) :
          /\ game_state[1].characters[n].espionage_results = <<>>
          /\ game_state[1].characters[n].private_updates = <<>>

-----------------------------------------------------------------------------
(* C22 *)

PublicViewOf(g, n) == g.characters[n].public_view

\* C22: no phase of process_round changes the PublicView of any character
\* (asset_balance, stated_objectives, stated_strategy, public_artifacts);
\* the leak phase changes nothing but public_events, to which it appends at
\* most one leak, so what a character shows is never corrected to what it
\* holds.
C22_PublicViewUntouched ==
    [][\A r \in Runs :
          /\ \A n \in Registered(game_state[r]) :
                PublicViewOf(game_state'[r], n) = PublicViewOf(game_state[r], n)
          /\ pc = "leaks" =>
                LET events == game_state[r].public_events
                    leaked == game_state'[r].public_events
                IN  /\ game_state'[r] = [game_state[r] EXCEPT !.public_events = leaked]
                    /\ \/ leaked = events
                       \/ /\ Len(leaked) = Len(events) + 1
                          /\ SubSeq(leaked, 1, Len(events)) = events
                          /\ leaked[Len(leaked)].kind = "Leaked intelligence"]_vars

\* A leak has just published the people A holds after B poached two of
\* them, and A still shows the figures it showed at the start.
C22_Witness ==
    /\ pc = "events"
    /\ game_state[1].public_events # <<>>
    /\ LET leak == game_state[1].public_events[Len(game_state[1].public_events)]
       IN  /\ leak.kind = "Leaked intelligence"
           /\ leak.name = "A"
           /\ leak.human = 18
    /\ PublicViewOf(game_state[1], "A").asset_balance = AssetBalance(12, 100, 30)
    /\ PublicViewOf(game_state[1], "A").stated_objectives = "objectives"

-----------------------------------------------------------------------------
(* C23 *)

\* s is the beginning of t.
IsPrefix(s, t) == Len(s) <= Len(t) /\ SubSeq(t, 1, Len(s)) = s

\* The kinds of the entries of t after the first k.
KindsAfter(t, k) == [i \in 1..(Len(t) - k) |-> t[k + i].kind]

\* C23: public_events and game_history are append-only: no step removes,
\* reorders or modifies an entry they hold.  A call that returns has
\* appended exactly one entry to game_history and at most two to
\* public_events: at most one leak and at most one random event, the leak
\* first.
C23_AppendOnly ==
    [][\A r \in Runs :
          /\ IsPrefix(game_state[r].public_events, game_state'[r].public_events)
          /\ IsPrefix(game_state[r].game_history, game_state'[r].game_history)
          /\ (pc = "summaries" /\ ~aborted[r]) =>
                /\ IsPrefix(entry[r].game_history, game_state'[r].game_history)
                /\ Len(game_state'[r].game_history) = Len(entry[r].game_history) + 1
                /\ IsPrefix(entry[r].public_events, game_state'[r].public_events)
                /\ KindsAfter(game_state'[r].public_events, Len(entry[r].public_events))
                      \in {<<>>, <<"Leaked intelligence">>, <<"Round">>,
                           <<"Leaked intelligence", "Round">>}]_vars

\* Two calls have returned, each with a leak and a random event.
C23_Witness ==
    /\ pc = "idle"
    /\ calls = 2
    /\ Len(game_state[1].game_history) = 2
    /\ KindsAfter(game_state[1].public_events, 0)
          = <<"Leaked intelligence", "Round", "Leaked intelligence", "Round">>
    /\ Len(entry[1].public_events) = 2

-----------------------------------------------------------------------------
(* C24 *)

\* The agent of the query failed while deciding: the call of the model
\* failed or gave no action, or the answer could not be parsed.
Failed(query) == query.outcome \in {"no actions", "raised"}

\* The query that put the k-th action in the list of the round.
QueryOf(s, k) ==
    CHOOSE query \in {s.queries[j] : j \in 1..Len(s.queries)} :
        query.first <= k /\ k < query.first + query.count

\* The game state but for the recent_actions of character n.
ButRecent(g, n) == [g EXCEPT !.characters[n].recent_actions = <<>>]

\* C24: when the agent of a character fails while deciding, the round goes
\* on with the next agent and the list of the round gets exactly one action
\* of that character, after the actions collected before it, which stay as
\* they were.  The list handed to process_round holds the actions of the
\* agents in the order of the agents.  Resolving the substituted action
\* raises nothing and changes no budget, asset or project of any character:
\* it changes the recent_actions of the character and nothing else.
C24_AgentFailure ==
    [][\A r \in Runs :
          LET s == sim[r]
              t == sim'[r]
              g == game_state[r]
          IN  /\ (/\ s.status = "collecting"
                  /\ Len(t.queries) = Len(s.queries) + 1
                  /\ Failed(t.queries[Len(t.queries)]))
                 => /\ t.status = "collecting"
                    /\ t.round_num = s.round_num
                    /\ t.position = s.position + 1
                    /\ Len(t.actions) = Len(s.actions) + 1
                    /\ SubSeq(t.actions, 1, Len(s.actions)) = s.actions
                    /\ t.actions[Len(t.actions)].character_name
                          = AgentNames(g)[s.position]
                    /\ game_state'[r] = g
              /\ (s.status = "collecting" /\ t.status = "resolving")
                 => /\ actions'[r] = s.actions
                    /\ [j \in 1..Len(s.queries) |-> s.queries[j].character_name] = AgentNames(g)
                    /\ \A k \in 1..Len(s.actions) :
                          s.actions[k].character_name = QueryOf(s, k).character_name
                    /\ \A j \in 1..Len(s.queries) : \A i \in 1..Len(s.queries) :
                          j < i => s.queries[j].first + s.queries[j].count <= s.queries[i].first
              /\ (/\ s.status = "resolving"
                  /\ pc = "actions"
                  /\ ~aborted[r]
                  /\ Failed(QueryOf(s, idx)))
                 => /\ ~aborted'[r]
                    /\ PrivateInfo(game_state'[r]) = PrivateInfo(g)
                    /\ ButRecent(game_state'[r], Resolving(r).character_name)
                          = ButRecent(g, Resolving(r).character_name)]_vars

\* The first round is recorded: the answer of A could not be parsed, B's
\* fundraising of 100 succeeded, and A holds what it held.
C24_Witness ==
    /\ sim[1].status = "recorded"
    /\ sim[1].round_num = 1
    /\ Len(sim[1].queries) = 2
    /\ sim[1].queries[1].outcome = "raised"
    /\ sim[1].queries[2].outcome = "answered"
    /\ Unstamped(sim[1].history[1].actions)
          = <<Action("MARKETING", "A"), Fundraise("B", 100)>>
    /\ game_state[1].characters["A"].private_info = entry[1].characters["A"].private_info
    /\ game_state[1].characters["B"].private_info # entry[1].characters["B"].private_info

-----------------------------------------------------------------------------
(* C25 *)

\* C25: Simulation.run goes from not started through the rounds 1..N to
\* complete: nothing ends it before, it calls process_round once per round
\* and max_rounds times in all, it records one history entry per round in
\* round order, and it returns rounds_completed = max_rounds.
C25_RunsAllRounds ==
    \A r \in Runs :
        LET s == sim[r]
        IN  /\ s.status # "failed"
            /\ calls <= s.max_rounds
            /\ s.round_num <= s.max_rounds
            /\ Len(s.history) <= calls
            /\ \A k \in 1..Len(s.history) : s.history[k].round = k
            /\ s.status = "complete" =>
                  /\ calls = s.max_rounds
                  /\ Len(s.history) = s.max_rounds
                  /\ s.result = <<[rounds_completed |-> s.max_rounds]>>

-----------------------------------------------------------------------------
(* C26 *)

\* The names of the characters whose agents have been queried, in the order
\* of the queries.
Queried(s) == [j \in 1..Len(s.queries) |-> s.queries[j].character_name]

\* C26: in every round the agents are queried one after the other in the
\* order of the characters while no call of process_round is in progress;
\* a query changes nothing in the game state, and every agent of the round
\* is passed the game state and the action summary the first one was
\* passed, and private updates read from that state.  process_round is
\* entered only when every agent has been queried, with the game state the
\* agents saw, and no agent is queried and no action is added to the list
\* until it has returned.
C26_CollectThenResolve ==
    [][\A r \in Runs :
          LET s == sim[r]
              t == sim'[r]
              g == game_state[r]
          IN  /\ Len(t.queries) = Len(s.queries) + 1 =>
                    LET query == t.queries[Len(t.queries)]
                    IN  /\ pc = "idle" /\ pc' = "idle"
                        /\ s.status = "collecting"
                        /\ game_state'[r] = g
                        /\ query.round_num = s.round_num
                        /\ query.character_name = CharSeq(g)[Len(t.queries)]
                        /\ query.game_state = t.queries[1].game_state
                        /\ query.action_summary = t.queries[1].action_summary
                        /\ query.private_updates
                              = IF t.queries[1].game_state.characters[query.character_name].private_updates # <<>>
                                THEN t.queries[1].game_state.characters[query.character_name].private_updates
                                ELSE NoUpdatesYet
              /\ (pc = "idle" /\ pc' # "idle") =>
                    /\ Queried(s) = CharSeq(g)
                    /\ \A j \in 1..Len(s.queries) :
                          /\ s.queries[j].game_state = g
                          /\ s.queries[j].round_num = s.round_num
                    /\ actions'[r] = s.actions
              /\ pc # "idle" =>
                    /\ t.queries = s.queries
                    /\ t.actions = s.actions
                    /\ t.status = "resolving"]_vars

\* process_round has just been entered for the second round: both agents
\* answered, and both were shown the state the first round had left.
C26_Witness ==
    /\ pc = "messages"
    /\ sim[1].status = "resolving"
    /\ sim[1].round_num = 2
    /\ Queried(sim[1]) = <<"A", "B">>
    /\ sim[1].queries[1].outcome = "answered"
    /\ sim[1].queries[2].outcome = "answered"
    /\ sim[1].queries[1].game_state = entry[1]
    /\ sim[1].queries[2].game_state = entry[1]
    /\ entry[1].round_number = 1
    /\ Len(actions[1]) = 3

-----------------------------------------------------------------------------
(* C27 *)

\* The espionage disclosures the gamemaster produced for character n in
\* round k of run r.
ProducedIn(r, k, n) == DisclosedIn(sim[r].history[k].private_summaries[n])

\* C27: the private updates the gamemaster produced for a character in
\* round k are in the private_updates its agent is passed for round k + 1,
\* which is then not the placeholder.
C27_PrivateUpdatesFed ==
    \A r \in Runs : \A j \in 1..Len(sim[r].queries) :
        LET query == sim[r].queries[j]
            produced == ProducedIn(r, query.round_num - 1, query.character_name)
        IN  (query.round_num > 1 /\ produced # <<>>) =>
               /\ query.private_updates # NoUpdatesYet
               /\ \A i \in 1..Len(produced) :
                     \E k \in 1..Len(query.private_updates) :
                        query.private_updates[k] = produced[i]

-----------------------------------------------------------------------------
(* C28 *)

\* C28: every debit and credit of a process_round call, by an action
\* handler or by the research phase, is made on the budget entry keyed by
\* the year of the simulated current_date as advanced in phase 1: no step
\* changes the entry of any other year.
C28_OneBudgetEntry ==
    [][\A r \in Runs : \A n \in Registered(game_state[r]) : \A y \in Years :
          y # Year(game_state'[r].current_date) =>
              BudgetOf(game_state'[r].characters[n], y)
                 = BudgetOf(game_state[r].characters[n], y)]_vars

-----------------------------------------------------------------------------
(* C29 *)

\* Run r is about to resolve an action of the given type of a registered
\* character.
ResolvingType(r, type) ==
    /\ pc = "actions"
    /\ ~aborted[r]
    /\ Resolving(r).action_type = type
    /\ Resolving(r).character_name \in Registered(game_state[r])

\* C29: an INVEST_CAPITAL of an amount a that the current-year budget covers
\* lowers the current-year budget by a and raises true capital by 90% of a;
\* a SELL_CAPITAL of an amount a that true capital covers lowers true
\* capital by a and raises the current-year budget by 70% of a; neither
\* changes any other budget entry, balance or project, nor anything of
\* another character.
C29_InvestAndSell ==
    [][\A r \in Runs :
          LET g == game_state[r]
              n == Resolving(r).character_name
              year == Year(g.current_date)
              a == Resolving(r).capital_investment
              s == Resolving(r).capital_to_sell
              capital == Balance(g, n).capital
              invested == SetBalance(SetBudget(g, n, year, CurrentYearBudget(g, n) - a), n,
                                     [Balance(g, n) EXCEPT !.capital = capital + Pct(a, InvestPct)])
              sold == SetBalance(SetBudget(g, n, year, CurrentYearBudget(g, n) + Pct(s, SellPct)), n,
                                 [Balance(g, n) EXCEPT !.capital = capital - s])
          IN  /\ (ResolvingType(r, "INVEST_CAPITAL") /\ a # 0 /\ CurrentYearBudget(g, n) >= a)
                 => /\ PrivateInfo(game_state'[r]) = PrivateInfo(invested)
                    /\ ButRecent(game_state'[r], n) = ButRecent(invested, n)
              /\ (ResolvingType(r, "SELL_CAPITAL") /\ s # 0 /\ capital >= s)
                 => /\ PrivateInfo(game_state'[r]) = PrivateInfo(sold)
                    /\ ButRecent(game_state'[r], n) = ButRecent(sold, n)]_vars

-----------------------------------------------------------------------------
(* C30 *)

\* The game state with the budget of n for the simulated year lowered by
\* amount.
Debited(g, n, amount) ==
    SetBudget(g, n, Year(g.current_date), CurrentYearBudget(g, n) - amount)

\* C30: an ESPIONAGE, a POACH_TALENT or a LOBBY that passes validation
\* lowers the acting character's current-year budget by the budget of the
\* action, whatever the draw.  A LOBBY changes nothing else, backfire or
\* not; a POACH_TALENT that succeeds also moves min(10% of the target's
\* human, 5) from the target to the acting character, and one that fails
\* moves nothing.
C30_BudgetSpentWhateverTheOutcome ==
    [][\A r \in Runs :
          LET g == game_state[r]
              a == Resolving(r)
              n == a.character_name
              said == Last(RecentTexts(game_state'[r], n), 1)
              moved == Min(Pct(Human(g, a.poaching_target), PoachPct), PoachCap)
          IN  /\ ResolvingEspionage(r)
                 => /\ game_state'[r].characters[n].private_info
                          = Debited(g, n, a.espionage[1].budget).characters[n].private_info
                    /\ said \in {<<"Conducted espionage (success)">>,
                                 <<"Conducted espionage (failed)">>}
              /\ (/\ ResolvingType(r, "POACH_TALENT")
                  /\ a.poaching_target \in Registered(g) \ {n}
                  /\ a.poaching_budget # 0
                  /\ CurrentYearBudget(g, n) >= a.poaching_budget)
                 => \/ /\ said = <<"Successfully poached talent">>
                       /\ PrivateInfo(game_state'[r])
                             = PrivateInfo(TransferHuman(Debited(g, n, a.poaching_budget),
                                                         a.poaching_target, n, moved))
                       /\ Human(game_state'[r], n) = Human(g, n) + moved
                       /\ Human(game_state'[r], a.poaching_target)
                             = Human(g, a.poaching_target) - moved
                    \/ /\ said = <<"Poaching attempt failed">>
                       /\ PrivateInfo(game_state'[r])
                             = PrivateInfo(Debited(g, n, a.poaching_budget))
              /\ (/\ ResolvingType(r, "LOBBY")
                  /\ a.lobbying_message # ""
                  /\ a.lobbying_budget # 0
                  /\ CurrentYearBudget(g, n) >= a.lobbying_budget)
                 => /\ PrivateInfo(game_state'[r])
                          = PrivateInfo(Debited(g, n, a.lobbying_budget))
                    /\ ButRecent(game_state'[r], n) = ButRecent(Debited(g, n, a.lobbying_budget), n)
                    /\ said \in {<<"Lobbying campaign backfired">>,
                                 <<"Launched lobbying campaign">>}]_vars

-----------------------------------------------------------------------------
(* C31 *)

\* The budget left of budget after the research phase has gone through the
\* first k projects of the list: an active project whose committed budget
\* the budget covers takes it, any other project takes nothing.
RECURSIVE BudgetAfter(_, _, _)
BudgetAfter(projects, k, budget) ==
    IF k = 0 THEN budget
    ELSE LET left == BudgetAfter(projects, k - 1, budget)
         IN  IF projects[k].status = "active" /\ left >= projects[k].committed_budget
             THEN left - projects[k].committed_budget
             ELSE left

\* C31: the research phase goes through the projects of every character in
\* list order.  A project that is active when the phase starts takes its
\* committed annual budget from the owner's current-year budget when the
\* budget covers it and nothing otherwise, and in both cases its progress
\* advances by its rate (up to 100%), completing it at 100%.  A completed
\* or cancelled project takes nothing and is left as it is.  Nothing else
\* changes.
C31_ResearchPhase ==
    [][\A r \in Runs : (pc = "research" /\ ~aborted[r]) =>
          \A n \in Registered(game_state[r]) :
             LET g == game_state[r]
                 before == g.characters[n].private_info.projects
                 after == game_state'[r].characters[n].private_info.projects
                 year == Year(g.current_date)
             IN  /\ Len(after) = Len(before)
                 /\ \A k \in 1..Len(before) :
                       IF before[k].status = "active"
                       THEN LET rate == Min(10 + before[k].committed_assets.human, 30)
                                progress == Min(before[k].progress + rate, 100)
                            IN  after[k] = [before[k] EXCEPT
                                               !.progress = progress,
                                               !.status = IF progress >= 100 THEN "completed"
                                                          ELSE "active"]
                       ELSE after[k] = before[k]
                 /\ game_state'[r].characters[n]
                       = [g.characters[n] EXCEPT
                             !.private_info.projects = after,
                             !.private_info.budget[year] =
                                 BudgetAfter(before, Len(before), CurrentYearBudget(g, n))]
                 /\ game_state'[r] = [g EXCEPT !.characters = game_state'[r].characters]]_vars

\* The research phase has just run on two active projects of B with a
\* budget of 0: both advanced and the budget is still 0.
C31_Witness ==
    /\ pc = "espionage"
    /\ Len(Projects(1, "B")) = 2
    /\ \A k \in 1..2 : Projects(1, "B")[k].status = "active"
    /\ Projects(1, "B")[1].progress = 90
    /\ Projects(1, "B")[2].progress = 60
    /\ CurrentYearBudget(game_state[1], "B") = 0
    /\ Year(game_state[1].current_date) = BaseYear

-----------------------------------------------------------------------------
(* C32 *)

\* The action is one that draws when it passes validation, and it passes.
DrawsOnce(g, a) ==
    /\ a.character_name \in Registered(g)
    /\ \/ a.action_type = "FUNDRAISE" /\ a.fundraising_amount # 0
       \/ /\ a.action_type \in {"ESPIONAGE", "POACH_TALENT", "LOBBY"}
          /\ ~FailsValidation(g, a.character_name, a)

\* C32: the random stream is consumed in a fixed order that the submitted
\* actions and the state determine: resolving an action draws once when it
\* is a FUNDRAISE, ESPIONAGE, POACH_TALENT or LOBBY that passes validation
\* and not at all otherwise; the leak phase draws once, and once more when
\* the leak fires; the world-event phase draws once, and once more when
\* the event fires; no other step draws.
C32_DrawOrder ==
    [][\A r \in Runs : (~aborted[r] /\ ~aborted'[r]) =>
          LET g == game_state[r]
              drawn == rng'[r] - rng[r]
              published == Len(game_state'[r].public_events) - Len(g.public_events)
          IN  CASE pc = "actions" -> drawn = IF DrawsOnce(g, Resolving(r)) THEN 1 ELSE 0
                [] pc \in {"leaks", "events"} -> drawn = 1 + published /\ published \in {0, 1}
                [] OTHER -> drawn = 0]_vars

-----------------------------------------------------------------------------
(* SpecCancel: one run; A creates projects and cancels them, more than once *)
(* and in later rounds, and B tries to cancel A's project.                  *)

CancelLists ==
    {<<CreateResearch("A", Affordable)>>,
     <<CreateResearch("A", Affordable), CreateResearch("A", Affordable)>>,
     <<CancelResearch("A", "p")>>,
     <<CancelResearch("B", "p")>>,
     <<CancelResearch("A", "p"), CancelResearch("A", "p")>>,
     <<CreateResearch("A", Affordable), CancelResearch("B", "p"),
       CancelResearch("A", "p"), CancelResearch("A", "p")>>}

InitCancel == InitOne({0}, {100}, {TwoCharacters})

NextCancel == CallProcessRound(CancelLists, MaxRounds) \/ Phases(QuietDraws)

SpecCancel == InitCancel /\ [][NextCancel]_vars

-----------------------------------------------------------------------------
(* C33 *)

\* C33: a cancellation refunds at most once per project.  A
\* CANCEL_RESEARCH_PROJECT that finds an active project of that name among
\* the submitter's own marks that one project cancelled and adds half of
\* its committed assets to the submitter's balance; one that finds none
\* changes nothing of the submitter; neither touches the projects or the
\* balance of another character; and a cancelled project is never changed
\* again, so it is never found a second time.
C33_RefundOnce ==
    [][\A r \in Runs : ~aborted[r] =>
          /\ \A n \in Registered(game_state[r]) : \A i \in 1..Len(Projects(r, n)) :
                 Projects(r, n)[i].status = "cancelled" =>
                     game_state'[r].characters[n].private_info.projects[i] = Projects(r, n)[i]
          /\ (/\ pc = "actions"
              /\ Resolving(r).action_type = "CANCEL_RESEARCH_PROJECT"
              /\ Resolving(r).character_name \in Registered(game_state[r])) =>
                 LET g == game_state[r]
                     n == Resolving(r).character_name
                     name == Resolving(r).project_name_to_cancel
                     before == g.characters[n].private_info
                     after == game_state'[r].characters[n].private_info
                     found == {i \in 1..Len(before.projects) :
                                  /\ before.projects[i].name = name
                                  /\ before.projects[i].status = "active"}
                 IN  /\ \A m \in Registered(g) \ {n} :
                            game_state'[r].characters[m].private_info = g.characters[m].private_info
                     /\ found = {} => after = before
                     /\ found # {} =>
                            \E i \in found :
                                after = [before EXCEPT
                                    !.projects[i].status = "cancelled",
                                    !.true_asset_balance =
                                        Add(@, Refund(before.projects[i].committed_assets))]]_vars

\* A created p, B tried to cancel it, A cancelled it and tried once more:
\* A holds what it had less half of what the project committed.
C33_Witness ==
    /\ pc = "research"
    /\ ~aborted[1]
    /\ RecentTexts(game_state[1], "A") =
           <<"Created research project", "Cancelled research project",
             "Could not find active research project">>
    /\ RecentTexts(game_state[1], "B") = <<"Could not find active research project">>
    /\ Len(Projects(1, "A")) = 1
    /\ Projects(1, "A")[1].status = "cancelled"
    /\ Balance(game_state[1], "A") = AssetBalance(9, 95, 10)
    /\ Balance(game_state[1], "B") = AssetBalance(8, 60, 60)

-----------------------------------------------------------------------------
(* SpecBudget: one run; every handler that debits a budget is asked twice  *)
(* for more than half of what the character has, and a project's yearly    *)
(* budget is deducted until the owner runs short.                          *)

BudgetLists ==
    {<<Marketing("B", 150), Marketing("B", 150)>>,
     <<Lobby("B", 150), Lobby("B", 150)>>,
     <<PoachTalent("B", "A", 150), PoachTalent("B", "A", 150)>>,
     <<Espionage("A", "B", 200), Espionage("A", "B", 200)>>,
     <<InvestCapital("A", 200), InvestCapital("A", 200)>>,
     <<CreateResearch("A", Affordable), InvestCapital("A", 200)>>,
     <<Fundraise("A", 100), SellCapital("A", 60)>>}

InitBudget == InitOne({0}, {100, 800}, {TwoCharacters})

NextBudget == CallProcessRound(BudgetLists, MaxRounds) \/ Phases(QuietDraws)

SpecBudget == InitBudget /\ [][NextBudget]_vars

-----------------------------------------------------------------------------
(* C34 *)

\* C34: with non-negative amounts in the submitted actions and non-negative
\* initial budgets, no budget entry of any character is negative in any
\* reachable state.
C34_BudgetsNonNegative ==
    \A r \in Runs : \A n \in Registered(game_state[r]) : \A year \in Years :
        BudgetOf(game_state[r].characters[n], year) >= 0

\* A paid 40 for its project and 200 for capital, the research phase of the
\* first round took 40 more, and that of the second round found 20 and
\* took nothing; a second investment of 200 was refused.
C34_Witness ==
    /\ pc = "espionage"
    /\ ~aborted[1]
    /\ game_state[1].round_number = 2
    /\ Len(Projects(1, "A")) = 1
    /\ Projects(1, "A")[1].status = "active"
    /\ Projects(1, "A")[1].progress = 60
    /\ BudgetOf(game_state[1].characters["A"], BaseYear) = 20
    /\ "Insufficient budget for capital investment" \in
           {RecentTexts(game_state[1], "A")[i] : i \in 1..Len(RecentTexts(game_state[1], "A"))}

-----------------------------------------------------------------------------
(* SpecLive: one run in which process_round keeps being called for as long *)
(* as the slowest project needs.  Projects are created in the first round, *)
(* with no people committed, with a budget the owner cannot keep paying,   *)
(* or with a negative number of people; the second round may cancel one,   *)
(* and the later rounds submit nothing.                                    *)

\* A project that commits no people.
Slow == ResearchProjectAction("s", "naive", 1000, 40, AssetBalance(2, 10, 0))

\* The rounds a project needs at the base rate, and one more.
RoundsToComplete == (100 \div BaseRatePct) + 1

LiveCreations ==
    {<<CreateResearch("B", Slow)>>,
     <<CreateResearch("B", Slow), Marketing("B", 150)>>,
     <<CreateResearch("B", Slow), CreateResearch("B", Affordable)>>,
     <<CreateResearch("B", Regressing)>>}

LiveLater == {<<>>, <<CancelResearch("B", "p")>>}

InitLive == InitOne({0}, {100}, {TwoCharacters})

\* The draw on which nothing fires.
CalmDraws == {900}

NextLive ==
    \/ CallProcessRound(CASE calls = 0 -> LiveCreations
                           [] calls = 1 -> LiveLater
                           [] OTHER -> {<<>>},
                        RoundsToComplete)
    \/ Phases(CalmDraws)

\* The caller keeps calling process_round, and a call runs its phases to
\* the end.
SpecLive == InitLive /\ [][NextLive]_vars /\ WF_vars(NextLive)

-----------------------------------------------------------------------------
(* C35 *)

\* The character's i-th project exists, is active and commits no negative
\* number of people.
Underway(r, n, i) ==
    /\ i <= Len(Projects(r, n))
    /\ Projects(r, n)[i].status = "active"
    /\ Projects(r, n)[i].committed_assets.human >= 0

\* C35: every project that is active with a non-negative committed human
\* resource is eventually completed unless it is cancelled, whatever the
\* owner's budget, as long as process_round keeps being called.
C35_ResearchCompletes ==
    \A n \in {"A", "B"} : \A i \in 1..2 :
        [](Underway(1, n, i) =>
              <>(/\ i <= Len(Projects(1, n))
                 /\ Projects(1, n)[i].status \in {"completed", "cancelled"}))

\* The project without people is completed, and its owner could not pay
\* for it from the first round on.
C35_Witness ==
    /\ Len(Projects(1, "B")) = 1
    /\ Projects(1, "B")[1].name = "s"
    /\ Projects(1, "B")[1].status = "completed"
    /\ Projects(1, "B")[1].progress = 100
    /\ \A year \in {BaseYear} : BudgetOf(game_state[1].characters["B"], year) = 10

-----------------------------------------------------------------------------
(* SpecPrompt: Simulation.run over one round more than the other           *)
(* specifications, with agents that write to each other in every round.    *)

PromptRounds == MaxRounds + 1

PromptAnswers(character_name) ==
    IF character_name = "A"
    THEN {<<WithMessage(Action("MESSAGE", "A"), "B")>>,
          <<InvestCapital("A", 100)>>}
    ELSE {<<WithMessage(Fundraise("B", 100), "A")>>}

InitPrompt ==
    /\ game_state = [r \in {1} |-> GameState(0, TwoCharacters)]
    /\ now = [r \in {1} |-> 100]
    /\ actions = [r \in {1} |-> <<>>]
    /\ rng = [r \in {1} |-> 0]
    /\ stream = <<>>
    /\ pc = "idle"
    /\ idx = 1
    /\ summaries = [r \in {1} |-> <<>>]
    /\ aborted = [r \in {1} |-> FALSE]
    /\ calls = 0
    /\ entry = game_state
    /\ sim = [r \in {1} |-> Simulation(PromptRounds)]

NextPrompt ==
    \/ BeginRound
    \/ TakeTurn(PromptAnswers)
    \/ RunProcessRound
    \/ Phases(CalmDraws)
    \/ RecordRound
    \/ Complete

SpecPrompt == InitPrompt /\ [][NextPrompt]_vars

-----------------------------------------------------------------------------
(* C36 *)

\* get_prompt_for_round: the messages under "Private Messages Received" of
\* the prompt built for a query.
PromptMessages(query) ==
    get_messages_for_round(query.game_state.characters[query.character_name],
                           query.game_state.round_number)

\* C36: a message delivered by the process_round of round k carries the
\* stamp k, and the prompt built for an agent in a round shows exactly the
\* messages of its character's inbox that were delivered in the round
\* before: a message is shown in the prompt of round k + 1 and in no other.
C36_ShownInNextRound ==
    [][\A r \in Runs :
          /\ \A n \in Registered(game_state[r]) :
                 \A i \in (Len(Inbox(game_state[r], n)) + 1)..Len(Inbox(game_state'[r], n)) :
                     Inbox(game_state'[r], n)[i].round_number = sim[r].round_num
          /\ \A j \in 1..Len(sim'[r].queries) :
                 LET query == sim'[r].queries[j]
                 IN  PromptMessages(query) =
                         SelectSeq(Inbox(game_state'[r], query.character_name),
                                   LAMBDA msg : msg.round_number + 1 = query.round_num)]_vars

\* B is queried in the third round with the messages of the first and of
\* the second round in its inbox, and its prompt shows the second.
C36_Witness ==
    /\ sim[1].round_num = 3
    /\ Len(sim[1].queries) = 2
    /\ sim[1].queries[2].character_name = "B"
    /\ Len(Inbox(sim[1].queries[2].game_state, "B")) = 2
    /\ Len(PromptMessages(sim[1].queries[2])) = 1
    /\ PromptMessages(sim[1].queries[2])[1].round_number = 2
    /\ PromptMessages(sim[1].queries[2])[1].from_character = "A"

-----------------------------------------------------------------------------
(* SpecResponse: Simulation.run with agents whose responses list messages  *)
(* next to no action, one action or two.                                   *)

Response(acts, messages) == [actions |-> acts, messages |-> messages]

Responses(character_name) ==
    IF character_name = "A"
    THEN {Response(<<InvestCapital("A", 100)>>, <<MessageAction("B", "hello")>>),
          Response(<<InvestCapital("A", 100)>>, <<>>),
          Response(<<>>, <<MessageAction("B", "hello")>>),
          Response(<<InvestCapital("A", 100), Fundraise("A", 100)>>,
                   <<MessageAction("B", "hello")>>),
          Response(<<InvestCapital("A", 100)>>,
                   <<MessageAction("B", "hello"), MessageAction("B", "again")>>)}
    ELSE {Response(<<Fundraise("B", 100)>>, <<>>)}

ParsedAnswers(character_name) ==
    {_parse_response(character_name, response) : response \in Responses(character_name)}

InitResponse == InitOne({0}, {100}, {TwoCharacters})

NextResponse ==
    \/ BeginRound
    \/ TakeTurn(ParsedAnswers)
    \/ RunProcessRound
    \/ Phases(CalmDraws)
    \/ RecordRound
    \/ Complete

SpecResponse == InitResponse /\ [][NextResponse]_vars

-----------------------------------------------------------------------------
(* C37 *)

\* The actions the query added to the list of the round.
AddedBy(s, query) == SubSeq(s.actions, query.first, query.first + query.count - 1)

\* How often the message of character n is in the inbox of its addressee
\* with the stamp of the round.
Deliveries(g, n, message) ==
    Cardinality({i \in 1..Len(Inbox(g, message.to_character)) :
                    Inbox(g, message.to_character)[i] =
                        Message(n, message.to_character, message.content,
                                g.current_date, g.round_number)})

\* C37: once the message phase of a round has run, every message that an
\* agent's response listed for a registered character is in that
\* character's inbox exactly once with the stamp of the round, whether the
\* response listed no action, one action or several.
C37_EveryMessageOnce ==
    \A r \in Runs :
        (sim[r].status = "resolving" /\ pc \notin {"idle", "messages"} /\ ~aborted[r]) =>
            \A j \in 1..Len(sim[r].queries) :
                LET query == sim[r].queries[j]
                    n == query.character_name
                IN  \A response \in Responses(n) :
                        (/\ query.outcome = "answered"
                         /\ _parse_response(n, response) = AddedBy(sim[r], query)) =>
                            \A k \in 1..Len(response.messages) :
                                response.messages[k].to_character \in Registered(game_state[r]) =>
                                    Deliveries(game_state[r], n, response.messages[k]) = 1

-----------------------------------------------------------------------------
(* SpecDisclosure: one run; A spies on B before and after B spends, and in *)
(* a round in which the research phase takes B's yearly project budget.    *)

DisclosureLists ==
    {<<Espionage("A", "B", 200)>>,
     <<Espionage("A", "B", 200), InvestCapital("B", 100)>>,
     <<InvestCapital("B", 100), Espionage("A", "B", 200)>>,
     <<CreateResearch("B", Affordable), Espionage("A", "B", 200)>>}

InitDisclosure == InitOne({0}, {100}, {TwoCharacters})

NextDisclosure == CallProcessRound(DisclosureLists, MaxCalls) \/ Phases(LoudDraws)

SpecDisclosure == InitDisclosure /\ [][NextDisclosure]_vars

-----------------------------------------------------------------------------
(* C38 *)

\* The espionage disclosures among the private updates of character n.
EspionageUpdates(g, n) ==
    SelectSeq(g.characters[n].private_updates, LAMBDA update : update.kind = "Espionage")

\* C38: an espionage disclosure reports the target as it stands when phase
\* 5 runs.  No disclosure exists before phase 5, and from phase 5 until
\* the summaries drain the buffer every disclosure shows the budget and the
\* assets its target has after all the primary actions and the research
\* phase of the round, which nothing changes in the later phases.
C38_DisclosedAtPhaseFive ==
    \A r \in Runs : ~aborted[r] =>
        \A n \in Registered(game_state[r]) :
            LET g == game_state[r]
                found == EspionageUpdates(g, n)
            IN  /\ pc \in {"messages", "actions", "research", "espionage"} => found = <<>>
                /\ pc \in {"leaks", "events", "summaries"} =>
                       \A i \in 1..Len(found) :
                           LET target == g.characters[found[i].name].private_info
                           IN  /\ found[i].budget = target.budget[Year(g.current_date)]
                               /\ found[i].technical_capability =
                                      target.true_asset_balance.technical_capability
                               /\ found[i].capital = target.true_asset_balance.capital
                               /\ found[i].human = target.true_asset_balance.human

\* A spied on B with success while B had a budget of 160 and a capital of
\* 50 left; the research phase then took 40, and the disclosure shows 120.
C38_Witness ==
    /\ pc = "leaks"
    /\ ~aborted[1]
    /\ Len(actions[1]) = 2
    /\ actions[1][2].action_type = "ESPIONAGE"
    /\ Len(EspionageUpdates(game_state[1], "A")) = 1
    /\ EspionageUpdates(game_state[1], "A")[1].name = "B"
    /\ EspionageUpdates(game_state[1], "A")[1].budget = 120
    /\ EspionageUpdates(game_state[1], "A")[1].capital = 50
    /\ Len(Projects(1, "B")) = 1

=============================================================================
